---- MODULE Spec2Model ----
(***************************************************************************)
(* Model of the crowd-heatmap front end (static/js/main.js): the           *)
(* feasibility cache (getFeasibilityWithCache), the orange-marker ranking  *)
(* (placeOrangeMarkers) and the handling of the POI-discovery and          *)
(* crowd-analysis responses (findPopularPlaces,                            *)
(* updateCrowdIntensityDropdown).                                          *)
(*                                                                         *)
(* Encodings.  A JavaScript string is a tuple of one-character strings.    *)
(* A coordinate is an integer number of 1e-5 degrees; NaN and Null stand   *)
(* for the JavaScript values NaN and null/undefined.  Times are in ms.     *)
(***************************************************************************)
EXTENDS Integers, Sequences, FiniteSets, TLC

\* ------------------------------------------------------------------------
\* Bounds of the model
\* ------------------------------------------------------------------------
MaxInFlight == 2
MaxTicks == 1
MaxClicks == 2
MaxHalfSteps == 3
MaxPeopleCount == 200
MaxPlaces == 2
MaxZones == 2
LongPlaceListLen == 12
LongZoneListLen == 7

\* ------------------------------------------------------------------------
\* JavaScript values
\* ------------------------------------------------------------------------
NaN == -999999
Null == -999998

\* Number.isNaN(v): true only for the number NaN (null/undefined give false).
NumberIsNaN(v) == v = NaN

\* parseFloat(v): a number stays, null/undefined/"" give NaN.
parseFloat(v) == IF v = Null THEN NaN ELSE v

\* JavaScript truthiness of a number-or-null value: 0, NaN and null are falsy.
Truthy(v) == v # 0 /\ v # NaN /\ v # Null

Abs(x) == IF x < 0 THEN -x ELSE x

\* ------------------------------------------------------------------------
\* Strings
\* ------------------------------------------------------------------------
Whitespace == {" "}

UpperToLower == ("C" :> "c") @@ ("F" :> "f") @@ ("P" :> "p") @@ ("B" :> "b")

toLowerCase(s) ==
    [i \in 1..Len(s) |-> IF s[i] \in DOMAIN UpperToLower THEN UpperToLower[s[i]] ELSE s[i]]

RECURSIVE TrimStart(_)
TrimStart(s) ==
    IF s # <<>> /\ Head(s) \in Whitespace THEN TrimStart(Tail(s)) ELSE s

RECURSIVE TrimEnd(_)
TrimEnd(s) ==
    IF s # <<>> /\ s[Len(s)] \in Whitespace THEN TrimEnd(SubSeq(s, 1, Len(s) - 1)) ELSE s

trim(s) == TrimEnd(TrimStart(s))

\* s.replace(/\s+/g, '_'): every maximal run of whitespace becomes one underscore.
RECURSIVE ReplaceWhitespaceRuns(_)
ReplaceWhitespaceRuns(s) ==
    IF s = <<>> THEN <<>>
    ELSE IF Head(s) \in Whitespace
         THEN <<"_">> \o ReplaceWhitespaceRuns(TrimStart(Tail(s)))
         ELSE <<Head(s)>> \o ReplaceWhitespaceRuns(Tail(s))

\* s.includes(t)
includes(s, t) ==
    \E i \in 0..(Len(s) - Len(t)) : SubSeq(s, i + 1, i + Len(t)) = t

\* s.split('_')[0]
RECURSIVE SplitFirst(_)
SplitFirst(s) ==
    IF s = <<>> \/ Head(s) = "_" THEN <<>> ELSE <<Head(s)>> \o SplitFirst(Tail(s))

\* ------------------------------------------------------------------------
\* Places, zones and distances
\* ------------------------------------------------------------------------
\* The anchor of the examples, (12.9716, 77.5946).  Every valid point of the
\* model lies on the meridian of the anchor.
AnchorLat == 1297160
AnchorLon == 7759460

EarthRadiusM == 6371000

\* R * pi / 180, the metres of one degree of a meridian (111195).
MetersPerDegree == ((EarthRadiusM \div 1000) * 31416) \div 1800

\* haversineMeters (lines 3561-3570) in whole metres.  With dLon = 0 the
\* formula is a = sin^2(dLat/2) and 2 R atan2(sqrt a, sqrt(1-a)) = R |dLat|;
\* an argument that is NaN gives NaN.
haversineMeters(lat1, lon1, lat2, lon2) ==
    IF lat1 = NaN \/ lon1 = NaN \/ lat2 = NaN \/ lon2 = NaN
    THEN NaN
    ELSE (MetersPerDegree * Abs(lat2 - lat1)) \div 100000

Str_cafe == <<"c", "a", "f", "e">>
Str_park == <<"p", "a", "r", "k">>
Str_mall == <<"m", "a", "l", "l">>
Str_gym == <<"g", "y", "m">>
Str_fast_food == <<"f", "a", "s", "t", "_", "f", "o", "o", "d">>

NoCenter == [lat |-> Null, lon |-> Null]

\* A place of /find-popular-places/: its tags and either lat/lon or center.
Place(amenity, shop, leisure, name, lat, lon, center) ==
    [tags |-> [amenity |-> amenity, shop |-> shop, tourism |-> <<>>,
               leisure |-> leisure, name |-> name],
     lat |-> lat, lon |-> lon, center |-> center]

CafeAt(d) == Place(Str_cafe, <<>>, <<>>, <<>>, AnchorLat + d, AnchorLon, NoCenter)

ParkNamedCafe ==
    Place(<<>>, <<>>, Str_park, <<"C", "a", "f", "e", " ", "B">>, AnchorLat + 90, AnchorLon, NoCenter)

PlaceCatalogue ==
    { CafeAt(180),                                   \* a cafe 200 m north
      Place(Str_cafe, <<>>, <<>>, <<>>, Null, Null,
            [lat |-> AnchorLat + 809, lon |-> AnchorLon]),   \* a cafe 900 m away, by center
      ParkNamedCafe,                                 \* a park named "Cafe B" (baseline 70)
      Place(<<>>, <<>>, <<>>, Str_gym, AnchorLat + 50, AnchorLon, NoCenter),  \* no category
      Place(Str_cafe, <<>>, <<>>, <<>>, 0, AnchorLon, NoCenter) }   \* latitude 0 is falsy

\* A zone of /analyze-crowd-intensity/.
Zone(latitude, longitude, count) ==
    [latitude |-> latitude, longitude |-> longitude, count |-> count]

ZoneCatalogue ==
    { Zone(AnchorLat + 100, AnchorLon, 3),
      Zone(AnchorLat - 100, AnchorLon, 3),
      Zone(NaN, AnchorLon, 50) }

\* ------------------------------------------------------------------------
\* Crowd classification (lines 766-799)
\* ------------------------------------------------------------------------
CROWD_THRESHOLDS_lowMax == 80
CROWD_THRESHOLDS_mediumMax == 160

Str_restaurant == <<"r", "e", "s", "t", "a", "u", "r", "a", "n", "t">>
Str_school == <<"s", "c", "h", "o", "o", "l">>
Str_college == <<"c", "o", "l", "l", "e", "g", "e">>
Str_university == <<"u", "n", "i", "v", "e", "r", "s", "i", "t", "y">>
Str_attraction == <<"a", "t", "t", "r", "a", "c", "t", "i", "o", "n">>

\* (a baseline that looks for the category in the shop tag as well)
estimateBaseFootfall_AnyField(place) ==
    LET amenity == IF place.tags.amenity # <<>> THEN place.tags.amenity ELSE place.tags.shop
        shop == place.tags.shop
        tourism == place.tags.tourism
        leisure == place.tags.leisure
    IN  IF amenity = Str_restaurant \/ amenity = Str_cafe \/ amenity = Str_fast_food THEN 110
        ELSE IF shop = Str_mall \/ tourism = Str_attraction THEN 140
        ELSE IF amenity = Str_school \/ amenity = Str_college \/ amenity = Str_university THEN 120
        ELSE IF amenity = Str_park \/ leisure = Str_park THEN 70
        ELSE 90

estimateBaseFootfall(place) ==
    LET amenity == place.tags.amenity
        shop == place.tags.shop
        tourism == place.tags.tourism
        leisure == place.tags.leisure
    IN  IF amenity = Str_restaurant \/ amenity = Str_cafe \/ amenity = Str_fast_food THEN 110
        ELSE IF shop = Str_mall \/ tourism = Str_attraction THEN 140
        ELSE IF amenity = Str_school \/ amenity = Str_college \/ amenity = Str_university THEN 120
        ELSE IF amenity = Str_park \/ leisure = Str_park THEN 70
        ELSE 90

\* (a classification with both thresholds halved)
classifyCrowd_HalvedThresholds(peopleCount) ==
    IF 2 * peopleCount < CROWD_THRESHOLDS_lowMax THEN "low"
    ELSE IF 2 * peopleCount < CROWD_THRESHOLDS_mediumMax THEN "medium"
    ELSE "high"

\* (a classification whose low band includes the threshold)
classifyCrowd_InclusiveLowMax(peopleCount) ==
    IF peopleCount <= CROWD_THRESHOLDS_lowMax THEN "low"
    ELSE IF peopleCount < CROWD_THRESHOLDS_mediumMax THEN "medium"
    ELSE "high"

classifyCrowd(peopleCount) ==
    IF peopleCount < CROWD_THRESHOLDS_lowMax THEN "low"
    ELSE IF peopleCount < CROWD_THRESHOLDS_mediumMax THEN "medium"
    ELSE "high"

\* ------------------------------------------------------------------------
\* Ranking: placeOrangeMarkers (lines 3525-3771)
\* ------------------------------------------------------------------------
TopPlaces == 10
TopZones == 5
TopFallbackPlaces == 5
zoneRadiusM == 900

IntensityLevels == {"low", "medium", "high"}

\* String.prototype.toLowerCase on the values of the crowd-intensity argument.
intensityToLowerCase(v) == IF v = "High" THEN "high" ELSE v

\* slice(0, n)
Slice(s, n) == SubSeq(s, 1, IF Len(s) < n THEN Len(s) ELSE n)

\* The value a sort comparator x - y yields; Array.prototype.sort takes NaN as 0.
SortCompare(x, y) == IF x = NaN \/ y = NaN THEN 0 ELSE x - y

\* Array.prototype.sort: stable, ascending by the comparator.
StableSort(s, Cmp(_, _)) ==
    LET n == Len(s)
        pos == [i \in 1..n |->
                  Cardinality({ j \in 1..n : \/ Cmp(s[j], s[i]) < 0
                                             \/ (Cmp(s[j], s[i]) = 0 /\ j < i) }) + 1]
    IN  [p \in 1..n |-> s[CHOOSE i \in 1..n : pos[i] = p]]

\* Line 3537
bizKeyOf(businessType) == ReplaceWhitespaceRuns(toLowerCase(trim(businessType)))

\* (an inference that tries the levels from high to low)
inferIntensity_HighFirst(bizKey, bbi) ==
    LET lists(level) ==
            \E i \in 1..Len(bbi[level]) :
                ReplaceWhitespaceRuns(toLowerCase(bbi[level][i])) = bizKey
    IN  IF lists("high") THEN "high"
        ELSE IF lists("medium") THEN "medium"
        ELSE IF lists("low") THEN "low"
        ELSE ""

\* Lines 3553-3559: the first level whose recommendation list holds bizKey.
inferIntensity(bizKey, bbi) ==
    LET lists(level) ==
            \E i \in 1..Len(bbi[level]) :
                ReplaceWhitespaceRuns(toLowerCase(bbi[level][i])) = bizKey
    IN  IF lists("low") THEN "low"
        ELSE IF lists("medium") THEN "medium"
        ELSE IF lists("high") THEN "high"
        ELSE ""

\* Lines 3536 and 3553-3559
intensityNormOf(crowdIntensity, bizKey, bbi) ==
    LET given == intensityToLowerCase(IF crowdIntensity = "moderate" THEN "medium"
                                      ELSE crowdIntensity)
    IN  IF given = "" THEN inferIntensity(bizKey, bbi) ELSE given

\* Lines 3572-3574
normalizeType(value) == trim(ReplaceWhitespaceRuns(toLowerCase(value)))

\* Lines 3576-3579
placeTypeFor(place) ==
    LET tags == place.tags IN
    normalizeType(IF tags.amenity # <<>> THEN tags.amenity
                  ELSE IF tags.shop # <<>> THEN tags.shop
                  ELSE IF tags.tourism # <<>> THEN tags.tourism
                  ELSE tags.leisure)

\* Lines 3581-3587; NoCenter stands for the null result.
coordsFor(place) ==
    LET useCenter == ~Truthy(place.lat) /\ place.center # NoCenter
        pLat == IF useCenter THEN place.center.lat ELSE place.lat
        pLon == IF useCenter THEN place.center.lon ELSE place.lon
    IN  IF ~Truthy(pLat) \/ ~Truthy(pLon) THEN NoCenter
        ELSE [lat |-> parseFloat(pLat), lon |-> parseFloat(pLon)]

\* A variant of typeOrNameMatches that accepts only an equal place type.
typeOrNameMatches_EqualityOnly(pType, pName, key) == pType = key

\* The test of lines 3596 and 3613 on a place type and name.
typeOrNameMatches(pType, pName, key) ==
    LET token == IF SplitFirst(key) # <<>> THEN SplitFirst(key) ELSE key IN
    pType = key \/ includes(pType, key) \/ includes(key, pType) \/ includes(pName, token)

\* Lines 3589-3597
typeMatches(place, bizKey) ==
    LET pType == placeTypeFor(place)
        pName == normalizeType(place.tags.name)
    IN  /\ bizKey # <<>>
        /\ ~(pType = <<>> /\ pName = <<>>)
        /\ typeOrNameMatches(pType, pName, bizKey)

\* Lines 3600-3604
mlCategorySet(intensityNorm, bbi) ==
    IF intensityNorm \in IntensityLevels
    THEN { normalizeType(bbi[intensityNorm][i]) : i \in 1..Len(bbi[intensityNorm]) } \ {<<>>}
    ELSE {}

\* Lines 3605-3618
mlMatches(place, mlSet) ==
    LET pType == placeTypeFor(place)
        pName == normalizeType(place.tags.name)
    IN  \/ mlSet = {}
        \/ /\ ~(pType = <<>> /\ pName = <<>>)
           /\ \E mlType \in mlSet : typeOrNameMatches(pType, pName, mlType)

\* Lines 3623-3629: the test a place passes to enter matchingPlaces.
placeQualifies(place, bizKey, intensityNorm, mlSet) ==
    /\ typeMatches(place, bizKey)
    /\ mlMatches(place, mlSet)
    /\ coordsFor(place) # NoCenter
    /\ (intensityNorm = "" \/ classifyCrowd(estimateBaseFootfall(place)) = intensityNorm)

\* Lines 3621-3637
matchingPlacesOf(allPlaces, bizKey, intensityNorm, mlSet) ==
    LET kept == SelectSeq(allPlaces, LAMBDA pl : placeQualifies(pl, bizKey, intensityNorm, mlSet))
    IN  [i \in 1..Len(kept) |->
            [place |-> kept[i],
             lat |-> coordsFor(kept[i]).lat,
             lon |-> coordsFor(kept[i]).lon,
             placeIntensity |-> classifyCrowd(estimateBaseFootfall(kept[i])),
             placeType |-> placeTypeFor(kept[i])]]

\* A marker pushed on orangeMarkers: its position and what its popup shows.
Marker(lat, lon, popup, placeType, placeIntensity, nearbyMatchCount, baseCount) ==
    [lat |-> lat, lon |-> lon, popup |-> popup, placeType |-> placeType,
     placeIntensity |-> placeIntensity, nearbyMatchCount |-> nearbyMatchCount,
     baseCount |-> baseCount]

\* Lines 3644-3646 and 3690-3692: the distance from the centre, 0 when the
\* centre is the number NaN.
centerDistanceTo(centerLat, centerLon, lat, lon) ==
    IF ~NumberIsNaN(centerLat) /\ ~NumberIsNaN(centerLon)
    THEN haversineMeters(parseFloat(centerLat), parseFloat(centerLon), lat, lon)
    ELSE 0

\* A variant of placeCompare that puts the farthest place first.
placeCompare_FarthestFirst(a, b, centerLat, centerLon) ==
    SortCompare(centerDistanceTo(centerLat, centerLon, b.lat, b.lon),
                centerDistanceTo(centerLat, centerLon, a.lat, a.lon))

\* Lines 3643-3651: the comparator of the sort of matchingPlaces.
placeCompare(a, b, centerLat, centerLon) ==
    SortCompare(centerDistanceTo(centerLat, centerLon, a.lat, a.lon),
                centerDistanceTo(centerLat, centerLon, b.lat, b.lon))

\* Lines 3642-3651: matchingPlaces after its in-place sort.
sortedMatchingPlaces(matching, centerLat, centerLon) ==
    StableSort(matching, LAMBDA a, b : placeCompare(a, b, centerLat, centerLon))

\* Lines 3641-3673 (priority 1)
placeMarkers(sorted) ==
    LET top == Slice(sorted, TopPlaces) IN
    [i \in 1..Len(top) |->
        Marker(top[i].lat, top[i].lon, "matched_place", top[i].placeType,
               top[i].placeIntensity, 0, 0)]

\* Line 3689: parseFloat(zone.count || 0) || 0
baseCountOf(zone) == IF Truthy(zone.count) THEN zone.count ELSE 0

\* Line 3695, in thousandths:
\* nearbyMatchCount * 1000 + baseCount - centerDistance * 0.001
zoneScore(nearbyMatchCount, baseCount, centerDistance) ==
    IF centerDistance = NaN THEN NaN
    ELSE nearbyMatchCount * 1000000 + baseCount * 1000 - centerDistance

\* A variant of zoneCompare that puts the lowest score first.
zoneCompare_Ascending(a, b) == SortCompare(a.score, b.score)

\* Line 3699: the comparator of the sort of the zone candidates.
zoneCompare(a, b) == SortCompare(b.score, a.score)

\* Lines 3676-3699
zoneCandidatesOf(zones, matching, centerLat, centerLon) ==
    LET valid == SelectSeq(zones, LAMBDA z : ~NumberIsNaN(parseFloat(z.latitude))
                                              /\ ~NumberIsNaN(parseFloat(z.longitude)))
        cand == [i \in 1..Len(valid) |->
                   LET zLat == parseFloat(valid[i].latitude)
                       zLon == parseFloat(valid[i].longitude)
                       nearbyMatchCount ==
                           Cardinality({ j \in 1..Len(matching) :
                               haversineMeters(zLat, zLon, matching[j].lat, matching[j].lon)
                                   <= zoneRadiusM })
                       baseCount == baseCountOf(valid[i])
                   IN  [zone |-> valid[i], zLat |-> zLat, zLon |-> zLon,
                        nearbyMatchCount |-> nearbyMatchCount, baseCount |-> baseCount,
                        score |-> zoneScore(nearbyMatchCount, baseCount,
                                     centerDistanceTo(centerLat, centerLon, zLat, zLon))]]
    IN  StableSort(cand, zoneCompare)

\* (zone markers that are added also after place markers)
zoneMarkers_AfterPlaces(matchCount, zoneCandidates) ==
    LET topZones == Slice(zoneCandidates, TopZones) IN
    [i \in 1..Len(topZones) |->
        Marker(topZones[i].zLat, topZones[i].zLon, "best_match_zone", <<>>, "",
               topZones[i].nearbyMatchCount, topZones[i].baseCount)]

\* Lines 3701-3718 (priority 2)
zoneMarkers(matchCount, zoneCandidates) ==
    IF matchCount = 0
    THEN LET topZones == Slice(zoneCandidates, TopZones) IN
         [i \in 1..Len(topZones) |->
             Marker(topZones[i].zLat, topZones[i].zLon, "best_match_zone", <<>>, "",
                    topZones[i].nearbyMatchCount, topZones[i].baseCount)]
    ELSE <<>>

\* Lines 3721-3740 (top matching places)
topPlaceMarkers(matchCount, sorted) ==
    IF matchCount = 0 /\ Len(sorted) > 0
    THEN LET top == Slice(sorted, TopFallbackPlaces) IN
         [i \in 1..Len(top) |->
             Marker(top[i].lat, top[i].lon, "top_place", top[i].placeType,
                    top[i].placeIntensity, 0, 0)]
    ELSE <<>>

\* A variant of centerMarkers that never puts the marker on the centre.
centerMarkers_Dropped(matchCount, centerLat, centerLon) == <<>>

\* Lines 3743-3749 (last resort)
centerMarkers(matchCount, centerLat, centerLon) ==
    IF matchCount = 0 /\ ~NumberIsNaN(parseFloat(centerLat)) /\ ~NumberIsNaN(parseFloat(centerLon))
    THEN << Marker(parseFloat(centerLat), parseFloat(centerLon), "no_ranked_zones", <<>>, "", 0, 0) >>
    ELSE <<>>

\* Lines 3535-3749: the markers one call pushes on the emptied orangeMarkers.
rankedMarkers(businessType, crowdIntensity, places, centerLat, centerLon, crowdData, bbi) ==
    LET bizKey == bizKeyOf(businessType)
        intensityNorm == intensityNormOf(crowdIntensity, bizKey, bbi)
        matching == sortedMatchingPlaces(
                        matchingPlacesOf(places, bizKey, intensityNorm,
                                         mlCategorySet(intensityNorm, bbi)),
                        centerLat, centerLon)
        m1 == placeMarkers(matching)
        zones == IF intensityNorm \in IntensityLevels THEN crowdData[intensityNorm] ELSE <<>>
        m2 == m1 \o zoneMarkers(Len(m1), zoneCandidatesOf(zones, matching, centerLat, centerLon))
        m3 == m2 \o topPlaceMarkers(Len(m2), matching)
    IN  m3 \o centerMarkers(Len(m3), centerLat, centerLon)

\* ------------------------------------------------------------------------
\* The user's location, the business form and its handlers: state
\* ------------------------------------------------------------------------
\* Line 8: no marker yet.
NoMarker == [lat |-> Null, lon |-> Null]

\* The fields of the form as the handlers read them: latitude and longitude
\* by parseFloat(value || '') (NaN for an empty field), the business type and
\* the crowd intensity as text.
EmptyForm ==
    [latitude |-> NaN, longitude |-> NaN, business_type |-> <<>>, crowd_intensity |-> ""]

IdleLocate ==
    [pc |-> "idle", disabled |-> FALSE, steps |-> <<>>, lat |-> Null, lon |-> Null,
     success |-> FALSE]

\* Lines 514, 608-610 and 2959-2961: the buttons findMyLocation is run from, each
\* run with the button it disables.
LocateButtons == {"find-location-btn", "dashboard-find-location-btn"}

IdleSubmit ==
    [pc |-> "idle", disabled |-> FALSE, message |-> "", call |-> 0, lat |-> Null, lon |-> Null,
     bizType |-> <<>>, intensity |-> "", hasCached |-> FALSE, outcome |-> "none",
     feasData |-> [success |-> FALSE, feasible |-> FALSE]]

\* No change event yet: the time of the last one, its parity, whether it came
\* less than the delay after the one before, the callbacks of the timer run
\* since, and whether the last callback called the cache.
NoWarmup == [eventAt |-> Null, seq |-> 0, burst |-> FALSE, ran |-> 0, called |-> FALSE]

\* ------------------------------------------------------------------------
\* Feasibility cache (getFeasibilityWithCache)
\* ------------------------------------------------------------------------
ttlMs == 120000

\* Inputs of the feasibility calls.  The two latitudes 12.97164 and 12.97161
\* round to the same 4 decimals, 12.97230 to another.
FeasLats == {1297164, 1297161, 1297230}
FeasLons == {7759460}
FeasBusinessTypes == {<<"C", "a", "f", "e", " ">>, <<"c", "a", "f", "e">>}

\* Responses of /check-feasibility/ as parsed by feasRes.json().
FeasResponses ==
    { [success |-> TRUE, feasible |-> TRUE],
      [success |-> TRUE, feasible |-> FALSE],
      [success |-> FALSE, feasible |-> FALSE] }

\* Number.prototype.toFixed(4) on a coordinate given in 1e-5 degrees: the
\* text of the result, as its sign and its digits in 1e-4 degrees.  A negative
\* number keeps its minus sign also when its digits are all zero
\* ((-0.00001).toFixed(4) is "-0.0000"); the inputs of the model have no exact
\* half.
toFixed4(v) ==
    IF v >= 0 THEN [neg |-> FALSE, digits |-> (v + 5) \div 10]
    ELSE [neg |-> TRUE, digits |-> ((-v) + 5) \div 10]

\* (a key whose business type is not trimmed)
cacheKey_NoTrim(lat, lon, businessType) ==
    <<toFixed4(lat), toFixed4(lon), toLowerCase(businessType)>>

cacheKey(lat, lon, businessType) ==
    <<toFixed4(lat), toFixed4(lon), trim(toLowerCase(businessType))>>

CallIds == 1..MaxInFlight

IdleCall == [pc |-> "idle", key |-> <<>>]

NoEvent == [type |-> "none", key |-> <<>>, data |-> [success |-> FALSE, feasible |-> FALSE], age |-> 0]

VARIABLES
    feasibilityResultCache,  \* Map: cache key -> [data, ts]
    now,                     \* Date.now()
    feasCalls,               \* the invocations of getFeasibilityWithCache in progress
    lastFeasEvent,           \* history: what the last step of a call did
    map,                     \* the Leaflet map, "none" until it is created
    lastCrowdIntensityData,  \* [high, medium, low]: the zones of the last analysis
    businessByIntensity,     \* [high, medium, low]: the recommended categories
    orangeMarkers,           \* the markers of the last ranking
    rankInput,               \* the places and centre the callers of the ranking pass
    lastRankCall,            \* history: the arguments of the last ranking
    lastPopularPlacesResult, \* [places, lat, lon]: the places of the last discovery
    currentAnchor,           \* the location of the latest click on the map
    analysisCalls,           \* the click listeners in progress, each with its lat and lon
    lastPure,                \* history: the last call of a function of the model, with its result
    userMarker,              \* the position of the marker of the user's location
    form,                    \* the fields of the business form
    locate,                  \* findMyLocation: its position, its button, the steps it has made
    submit,                  \* the submit handler of the form: its position, button and message
    feasibilityWarmupTimer,  \* the time the warm-up timer is due at, Null when none is set
    lastWarmup               \* history: the last change event and the callbacks run since

cacheVars == <<feasibilityResultCache, now, feasCalls, lastFeasEvent>>

rankVars == <<map, lastCrowdIntensityData, businessByIntensity, orangeMarkers, rankInput,
              lastRankCall>>

analysisVars == <<lastPopularPlacesResult, currentAnchor, analysisCalls>>

pureVars == <<lastPure>>

formVars == <<locate, submit, feasibilityWarmupTimer, lastWarmup>>

uiVars == <<userMarker, form, locate, submit, feasibilityWarmupTimer, lastWarmup>>

vars == <<feasibilityResultCache, now, feasCalls, lastFeasEvent, map, lastCrowdIntensityData,
          businessByIntensity, orangeMarkers, rankInput, lastRankCall,
          lastPopularPlacesResult, currentAnchor, analysisCalls, lastPure,
          userMarker, form, locate, submit, feasibilityWarmupTimer, lastWarmup>>

\* Lines 8 and 28, and the page as it is loaded.
InitUi ==
    /\ userMarker = NoMarker
    /\ form = EmptyForm
    /\ locate = [btnId \in LocateButtons |-> IdleLocate]
    /\ submit = IdleSubmit
    /\ feasibilityWarmupTimer = Null
    /\ lastWarmup = NoWarmup

\* (a set that keeps the entry a key already has)
MapSet_KeepsFirst(m, k, v) == [x \in (DOMAIN m) \cup {k} |-> IF x \in DOMAIN m THEN m[x] ELSE v]

\* Map.prototype.set
MapSet(m, k, v) == [x \in (DOMAIN m) \cup {k} |-> IF x = k THEN v ELSE m[x]]

\* (a cache that still serves an entry whose age is exactly ttlMs)
CacheLive_InclusiveTtl(cache, key, t) == key \in DOMAIN cache /\ (t - cache[key].ts) <= ttlMs

\* cacheHit && (Date.now() - cacheHit.ts) < ttlMs
CacheLive(cache, key, t) == key \in DOMAIN cache /\ (t - cache[key].ts) < ttlMs

\* Lines 27-28 and the clock
InitCache ==
    /\ feasibilityResultCache = <<>>
    /\ now = 0
    /\ feasCalls = [c \in CallIds |-> IdleCall]
    /\ lastFeasEvent = NoEvent

\* (a call that joins the request in flight for its key instead of fetching)
FeasCallStart_Coalesced(c, lat, lon, businessType) ==
    LET key == cacheKey(lat, lon, businessType) IN
    /\ feasCalls[c].pc = "idle"
    /\ \A d \in CallIds : d < c => feasCalls[d].pc # "idle"
    /\ IF CacheLive(feasibilityResultCache, key, now)
       THEN /\ lastFeasEvent' = [type |-> "hit", key |-> key,
                                 data |-> feasibilityResultCache[key].data,
                                 age |-> now - feasibilityResultCache[key].ts]
            /\ UNCHANGED feasCalls
       ELSE /\ feasCalls' =
                  IF \E d \in CallIds : feasCalls[d].pc # "idle" /\ feasCalls[d].key = key
                  THEN feasCalls
                  ELSE [feasCalls EXCEPT ![c] = [pc |-> "fetching", key |-> key]]
            /\ lastFeasEvent' = [type |-> "fetch", key |-> key, data |-> NoEvent.data,
                                 age |-> now]
    /\ UNCHANGED <<feasibilityResultCache, now>>
    /\ UNCHANGED <<rankVars, analysisVars, pureVars, uiVars>>

\* Lines 30-37: the key is built, the cache consulted; on a hit the cached data
\* is returned, otherwise fetch() is invoked and the call suspends.
getFeasibilityWithCache(c, lat, lon, businessType) ==
    LET key == cacheKey(lat, lon, businessType) IN
    /\ feasCalls[c].pc = "idle"
    /\ \A d \in CallIds : d < c => feasCalls[d].pc # "idle"
    /\ IF CacheLive(feasibilityResultCache, key, now)
       THEN /\ lastFeasEvent' = [type |-> "hit", key |-> key,
                                 data |-> feasibilityResultCache[key].data,
                                 age |-> now - feasibilityResultCache[key].ts]
            /\ UNCHANGED feasCalls
       ELSE /\ feasCalls' = [feasCalls EXCEPT ![c] = [pc |-> "fetching", key |-> key]]
            /\ lastFeasEvent' = [type |-> "fetch", key |-> key, data |-> NoEvent.data,
                                 age |-> IF key \in DOMAIN feasibilityResultCache
                                         THEN now - feasibilityResultCache[key].ts ELSE 0]
    /\ UNCHANGED <<feasibilityResultCache, now>>

\* A call of getFeasibilityWithCache whose caller is left out.
FeasCallStart(c, lat, lon, businessType) ==
    /\ getFeasibilityWithCache(c, lat, lon, businessType)
    /\ UNCHANGED <<rankVars, analysisVars, pureVars, uiVars>>

\* Line 37: fetch() resolves with a response (of any HTTP status).
FeasFetchResolved(c) ==
    /\ feasCalls[c].pc = "fetching"
    /\ feasCalls' = [feasCalls EXCEPT ![c].pc = "parsing"]
    /\ UNCHANGED <<feasibilityResultCache, now, lastFeasEvent>>
    /\ UNCHANGED <<rankVars, analysisVars, pureVars, uiVars>>

\* Line 37: fetch() rejects (network failure); the rejection leaves the function.
fetchRejected(c) ==
    /\ feasCalls[c].pc = "fetching"
    /\ feasCalls' = [feasCalls EXCEPT ![c] = IdleCall]
    /\ lastFeasEvent' = [type |-> "threw", key |-> feasCalls[c].key, data |-> NoEvent.data, age |-> 0]
    /\ UNCHANGED <<feasibilityResultCache, now>>

FeasFetchRejected(c) ==
    /\ fetchRejected(c)
    /\ UNCHANGED <<rankVars, analysisVars, pureVars, uiVars>>

\* Lines 49-51: the body parses; the entry is written and the data returned.
jsonResolved(c, data) ==
    /\ feasCalls[c].pc = "parsing"
    /\ feasibilityResultCache' =
          MapSet(feasibilityResultCache, feasCalls[c].key, [data |-> data, ts |-> now])
    /\ feasCalls' = [feasCalls EXCEPT ![c] = IdleCall]
    /\ lastFeasEvent' = [type |-> "stored", key |-> feasCalls[c].key, data |-> data, age |-> 0]
    /\ UNCHANGED now

FeasJsonResolved(c, data) ==
    /\ jsonResolved(c, data)
    /\ UNCHANGED <<rankVars, analysisVars, pureVars, uiVars>>

\* (a cache that records the failure as an entry)
FeasJsonRejected_StoresError(c) ==
    /\ feasCalls[c].pc = "parsing"
    /\ feasibilityResultCache' =
          MapSet(feasibilityResultCache, feasCalls[c].key,
                 [data |-> [success |-> FALSE, feasible |-> FALSE], ts |-> now])
    /\ feasCalls' = [feasCalls EXCEPT ![c] = IdleCall]
    /\ lastFeasEvent' = [type |-> "threw", key |-> feasCalls[c].key, data |-> NoEvent.data, age |-> 0]
    /\ UNCHANGED now
    /\ UNCHANGED <<rankVars, analysisVars, pureVars, uiVars>>

\* Line 49: feasRes.json() rejects (the body is no JSON).
jsonRejected(c) ==
    /\ feasCalls[c].pc = "parsing"
    /\ feasCalls' = [feasCalls EXCEPT ![c] = IdleCall]
    /\ lastFeasEvent' = [type |-> "threw", key |-> feasCalls[c].key, data |-> NoEvent.data, age |-> 0]
    /\ UNCHANGED <<feasibilityResultCache, now>>

FeasJsonRejected(c) ==
    /\ jsonRejected(c)
    /\ UNCHANGED <<rankVars, analysisVars, pureVars, uiVars>>

\* The clock advances; the steps make an age of exactly ttlMs - 1 and ttlMs occur.
TickSteps == {ttlMs - 1, ttlMs}

\* The number of steps the clock has made.
TicksOf(t) == (t + ttlMs - 1) \div ttlMs

Tick(d) ==
    /\ TicksOf(now) < MaxTicks
    /\ now' = now + d
    /\ UNCHANGED <<feasibilityResultCache, feasCalls, lastFeasEvent>>
    /\ UNCHANGED <<rankVars, analysisVars, pureVars, uiVars>>

NextCache ==
    \/ \E c \in CallIds, lat \in FeasLats, lon \in FeasLons, b \in FeasBusinessTypes :
          FeasCallStart(c, lat, lon, b)
    \/ \E c \in CallIds : FeasFetchResolved(c)
    \/ \E c \in CallIds : FeasFetchRejected(c)
    \/ \E c \in CallIds, data \in FeasResponses : FeasJsonResolved(c, data)
    \/ \E c \in CallIds : FeasJsonRejected(c)
    \/ \E d \in TickSteps : Tick(d)

\* ------------------------------------------------------------------------
\* State of the ranking
\* ------------------------------------------------------------------------
NoZones == [high |-> <<>>, medium |-> <<>>, low |-> <<>>]

NoRankCall ==
    [called |-> FALSE, hadMap |-> FALSE, businessType |-> <<>>, crowdIntensity |-> "",
     places |-> <<>>, centerLat |-> Null, centerLon |-> Null]

\* Lines 6-21
InitRank ==
    /\ map = "none"
    /\ lastCrowdIntensityData = NoZones
    /\ businessByIntensity = NoZones
    /\ orangeMarkers = <<>>
    /\ rankInput = [places |-> <<>>, centerLat |-> Null, centerLon |-> Null]
    /\ lastRankCall = NoRankCall

\* Lines 66-69 and 2997-3004: the map is created.
initHeatmapContainer ==
    /\ map = "none"
    /\ map' = "leaflet"
    /\ UNCHANGED <<lastCrowdIntensityData, businessByIntensity, orangeMarkers, rankInput,
                   lastRankCall>>
    /\ UNCHANGED <<cacheVars, analysisVars, pureVars, uiVars>>

\* (a ranking that keeps the markers of the previous call)
placeOrangeMarkers_KeepsPrevious(businessType, crowdIntensity, places, centerLat, centerLon) ==
    /\ orangeMarkers' =
          IF map = "none" THEN <<>>
          ELSE orangeMarkers \o rankedMarkers(businessType, crowdIntensity, places, centerLat,
                                    centerLon, lastCrowdIntensityData, businessByIntensity)
    /\ lastRankCall' =
          [called |-> TRUE, hadMap |-> map # "none", businessType |-> businessType,
           crowdIntensity |-> crowdIntensity, places |-> places,
           centerLat |-> centerLat, centerLon |-> centerLon]
    /\ UNCHANGED <<map, lastCrowdIntensityData, businessByIntensity, rankInput>>
    /\ UNCHANGED <<cacheVars, analysisVars, pureVars, uiVars>>

\* Lines 3525-3771: orangeMarkers is emptied; without a map the call ends there,
\* with one it pushes the markers of the first tier that has any.
runPlaceOrangeMarkers(businessType, crowdIntensity, places, centerLat, centerLon) ==
    /\ orangeMarkers' =
          IF map = "none" THEN <<>>
          ELSE rankedMarkers(businessType, crowdIntensity, places, centerLat, centerLon,
                             lastCrowdIntensityData, businessByIntensity)
    /\ lastRankCall' =
          [called |-> TRUE, hadMap |-> map # "none", businessType |-> businessType,
           crowdIntensity |-> crowdIntensity, places |-> places,
           centerLat |-> centerLat, centerLon |-> centerLon]

\* A call of placeOrangeMarkers whose caller is left out.
placeOrangeMarkers(businessType, crowdIntensity, places, centerLat, centerLon) ==
    /\ runPlaceOrangeMarkers(businessType, crowdIntensity, places, centerLat, centerLon)
    /\ UNCHANGED <<map, lastCrowdIntensityData, businessByIntensity, rankInput>>
    /\ UNCHANGED <<cacheVars, analysisVars, pureVars, uiVars>>

\* ------------------------------------------------------------------------
\* Inputs of the ranking
\* ------------------------------------------------------------------------
SeqsUpTo(S, n) == UNION { [1..k -> S] : k \in 0..n }

\* Cafes at 0, 150 and 300 m north and south of the anchor, out of order.
LongPlaceList == [i \in 1..LongPlaceListLen |-> CafeAt((((i * 7) % 5) - 2) * 135)]

\* Zones 0, 100 and 200 units north and south of the anchor, of counts 1 and 2
\* and one without a count.
LongZoneList ==
    [i \in 1..LongZoneListLen |->
        Zone(AnchorLat + (((i * 3) % 5) - 2) * 100, AnchorLon,
             IF i % 3 = 0 THEN Null ELSE i % 3)]

PlaceLists == SeqsUpTo(PlaceCatalogue, MaxPlaces) \cup {LongPlaceList}

PlaceListsFew == {<<>>, <<ParkNamedCafe>>, <<CafeAt(180), CafeAt(-180)>>}

MediumZoneLists == SeqsUpTo(ZoneCatalogue, MaxZones) \cup {LongZoneList}

CrowdDataFew ==
    { NoZones,
      [high |-> <<Zone(AnchorLat + 700, AnchorLon, 8)>>,
       medium |-> <<Zone(AnchorLat + 100, AnchorLon, 3), Zone(AnchorLat + 500, AnchorLon, 9)>>,
       low |-> <<Zone(AnchorLat - 600, AnchorLon, 2)>>] }

CrowdDataAll ==
    { [high |-> <<Zone(AnchorLat + 700, AnchorLon, 8)>>, medium |-> zl,
       low |-> <<Zone(AnchorLat - 600, AnchorLon, 2)>>] : zl \in MediumZoneLists }

RecommendationMaps ==
    { NoZones,
      [high |-> <<Str_mall>>,
       medium |-> <<<<"C", "a", "f", "e">>, <<"F", "a", "s", "t", " ", "f", "o", "o", "d">>>>,
       low |-> <<<<"P", "a", "r", "k">>, <<"F", "a", "s", "t", " ", "f", "o", "o", "d">>>>],
      [high |-> <<>>, medium |-> <<Str_mall>>, low |-> <<Str_cafe>>] }

RankCenters ==
    { [lat |-> AnchorLat, lon |-> AnchorLon],
      [lat |-> AnchorLat, lon |-> NaN],
      [lat |-> Null, lon |-> Null] }

RankBusinessTypes ==
    { <<>>, <<"C", "a", "f", "e", " ">>, <<"F", "a", "s", "t", " ", " ", "f", "o", "o", "d">> }

RankIntensities == {"", "low", "medium", "High", "moderate"}

\* The states in which the ranking is exercised: a crowd analysis has left its
\* zones and recommendations, and the callers hold a list of places and a centre.
RankScenarios ==
    { [places |-> pl, crowd |-> cd, bbi |-> bbi, centerLat |-> AnchorLat, centerLon |-> AnchorLon] :
          pl \in PlaceLists, cd \in CrowdDataFew \ {NoZones}, bbi \in RecommendationMaps }
    \cup
    { [places |-> pl, crowd |-> cd, bbi |-> bbi, centerLat |-> AnchorLat, centerLon |-> AnchorLon] :
          pl \in PlaceListsFew, cd \in CrowdDataAll, bbi \in RecommendationMaps }
    \cup
    { [places |-> pl, crowd |-> cd, bbi |-> NoZones, centerLat |-> c.lat, centerLon |-> c.lon] :
          pl \in PlaceListsFew, cd \in CrowdDataFew, c \in RankCenters }

InitRankInputs ==
    /\ map = "none"
    /\ orangeMarkers = <<>>
    /\ lastRankCall = NoRankCall
    /\ \E sc \in RankScenarios :
          /\ lastCrowdIntensityData = sc.crowd
          /\ businessByIntensity = sc.bbi
          /\ rankInput = [places |-> sc.places, centerLat |-> sc.centerLat,
                          centerLon |-> sc.centerLon]

NextRank ==
    \/ initHeatmapContainer
    \/ \E b \in RankBusinessTypes, i \in RankIntensities :
          placeOrangeMarkers(b, i, rankInput.places, rankInput.centerLat, rankInput.centerLon)

\* ------------------------------------------------------------------------
\* Discovery of places and crowd analysis (lines 84-108, 613-761, 2367-2664)
\* ------------------------------------------------------------------------
AnalysisIds == 1..MaxClicks

NoAnchor == [lat |-> Null, lon |-> Null]

IdleAnalysis == [pc |-> "idle", lat |-> Null, lon |-> Null]

\* Lines 16-19
InitAnalysis ==
    /\ lastPopularPlacesResult = [places |-> <<>>, lat |-> Null, lon |-> Null]
    /\ currentAnchor = NoAnchor
    /\ analysisCalls = [c \in AnalysisIds |-> IdleAnalysis]

\* The locations clicked.
ClickLocations ==
    { [lat |-> AnchorLat, lon |-> AnchorLon], [lat |-> AnchorLat + 900, lon |-> AnchorLon] }

\* What /find-popular-places/ answers: nothing that parses, an error, or results.
PlacesResponses ==
    { [outcome |-> "rejected", results |-> <<>>],
      [outcome |-> "error", results |-> <<>>],
      [outcome |-> "success", results |-> <<>>],
      [outcome |-> "success", results |-> <<CafeAt(180)>>],
      [outcome |-> "success", results |-> <<ParkNamedCafe>>] }

\* What /analyze-crowd-intensity/ answers: nothing that parses, success false, or
\* the zones of the three bands (absent lists the names of the fields left out).
CrowdResponses ==
    { [outcome |-> "rejected", high_intensity |-> <<>>, medium_intensity |-> <<>>,
       low_intensity |-> <<>>, absent |-> {}, business_by_intensity |-> NoZones],
      [outcome |-> "error", high_intensity |-> <<>>, medium_intensity |-> <<>>,
       low_intensity |-> <<>>, absent |-> {}, business_by_intensity |-> NoZones],
      [outcome |-> "success", high_intensity |-> <<>>,
       medium_intensity |-> <<Zone(AnchorLat + 100, AnchorLon, 3)>>,
       low_intensity |-> <<>>, absent |-> {},
       business_by_intensity |-> [high |-> <<>>, medium |-> <<Str_mall>>, low |-> <<Str_cafe>>]],
      [outcome |-> "success", high_intensity |-> <<>>, medium_intensity |-> <<>>,
       low_intensity |-> <<>>, absent |-> {"business_by_intensity"},
       business_by_intensity |-> NoZones],
      [outcome |-> "success", high_intensity |-> <<Zone(AnchorLat + 700, AnchorLon, 8)>>,
       medium_intensity |-> <<>>, low_intensity |-> <<>>,
       absent |-> {"medium_intensity", "low_intensity", "business_by_intensity"},
       business_by_intensity |-> NoZones],
      [outcome |-> "success", high_intensity |-> <<>>, medium_intensity |-> <<>>,
       low_intensity |-> <<Zone(AnchorLat - 600, AnchorLon, 2)>>,
       absent |-> {"medium_intensity", "business_by_intensity"},
       business_by_intensity |-> NoZones],
      [outcome |-> "success", high_intensity |-> <<>>,
       medium_intensity |-> <<Zone(AnchorLat - 100, AnchorLon, 3)>>, low_intensity |-> <<>>,
       absent |-> {"high_intensity"},
       business_by_intensity |-> [high |-> <<Str_mall>>, medium |-> <<>>, low |-> <<>>]] }

\* Lines 84-106: a click on the map, up to the request of findPopularPlaces.
mapClick(c, lat, lon) ==
    /\ map # "none"
    /\ analysisCalls[c].pc = "idle"
    /\ currentAnchor' = [lat |-> lat, lon |-> lon]
    /\ analysisCalls' = [analysisCalls EXCEPT ![c] = [pc |-> "places", lat |-> lat, lon |-> lon]]
    /\ form' = [form EXCEPT !.latitude = lat, !.longitude = lon]
    /\ userMarker' = [lat |-> lat, lon |-> lon]
    /\ UNCHANGED <<lastPopularPlacesResult, lastCrowdIntensityData, businessByIntensity>>
    /\ UNCHANGED <<cacheVars, map, orangeMarkers, rankInput, lastRankCall, pureVars, formVars>>

\* Lines 624-737 and 743-760: findPopularPlaces from the answer to its request,
\* up to the request of the updateCrowdIntensityDropdown of line 737, or, when
\* it failed, of line 107.
findPopularPlacesResponse(c, data) ==
    /\ analysisCalls[c].pc = "places"
    /\ IF data.outcome = "success"
       THEN /\ lastPopularPlacesResult' =
                  [places |-> data.results, lat |-> analysisCalls[c].lat,
                   lon |-> analysisCalls[c].lon]
            /\ analysisCalls' = [analysisCalls EXCEPT ![c].pc = "crowd_of_places"]
       ELSE /\ analysisCalls' = [analysisCalls EXCEPT ![c].pc = "crowd_of_click"]
            /\ UNCHANGED lastPopularPlacesResult
    /\ UNCHANGED <<currentAnchor, lastCrowdIntensityData, businessByIntensity>>
    /\ UNCHANGED <<cacheVars, map, orangeMarkers, rankInput, lastRankCall, pureVars, uiVars>>

\* Line 2620: the test reads .length of the three lists in turn and throws on the
\* first absent one it reaches.
noAreasTestThrows(data) ==
    \/ "high_intensity" \in data.absent
    \/ /\ Len(data.high_intensity) = 0
       /\ \/ "medium_intensity" \in data.absent
          \/ /\ Len(data.medium_intensity) = 0
             /\ "low_intensity" \in data.absent

\* (zones that are added to those of the analysis before)
crowdIntensityAfter_Merged(data) ==
    IF data.outcome = "success" /\ ~noAreasTestThrows(data)
    THEN [high |-> lastCrowdIntensityData.high \o data.high_intensity,
          medium |-> lastCrowdIntensityData.medium \o data.medium_intensity,
          low |-> lastCrowdIntensityData.low \o data.low_intensity]
    ELSE NoZones

\* Lines 2384-2662: updateCrowdIntensityDropdown from the answer to its request.
crowdIntensityAfter(data) ==
    IF data.outcome = "success" /\ ~noAreasTestThrows(data)
    THEN [high |-> data.high_intensity, medium |-> data.medium_intensity,
          low |-> data.low_intensity]
    ELSE NoZones

\* (an answer whose failure also empties the recommendations)
updateCrowdIntensityDropdownResponse_ResetsMap(c, data) ==
    /\ analysisCalls[c].pc \in {"crowd_of_places", "crowd_of_click"}
    /\ businessByIntensity' =
          IF data.outcome = "success" /\ "business_by_intensity" \notin data.absent
          THEN data.business_by_intensity
          ELSE IF data.outcome = "success" THEN businessByIntensity ELSE NoZones
    /\ lastCrowdIntensityData' = crowdIntensityAfter(data)
    /\ analysisCalls' =
          [analysisCalls EXCEPT ![c] =
              IF analysisCalls[c].pc = "crowd_of_places"
              THEN [analysisCalls[c] EXCEPT !.pc = "crowd_of_click"]
              ELSE IdleAnalysis]
    /\ UNCHANGED <<currentAnchor, lastPopularPlacesResult>>
    /\ UNCHANGED <<cacheVars, map, orangeMarkers, rankInput, lastRankCall, pureVars, uiVars>>

\* Lines 2384-2662, then 738-742 and 107, or 108: updateCrowdIntensityDropdown
\* from the answer to its request, up to the next request of the click listener
\* or to its end.
updateCrowdIntensityDropdownResponse(c, data) ==
    /\ analysisCalls[c].pc \in {"crowd_of_places", "crowd_of_click"}
    /\ businessByIntensity' =
          IF data.outcome = "success" /\ "business_by_intensity" \notin data.absent
          THEN data.business_by_intensity
          ELSE businessByIntensity
    /\ lastCrowdIntensityData' = crowdIntensityAfter(data)
    /\ analysisCalls' =
          [analysisCalls EXCEPT ![c] =
              IF analysisCalls[c].pc = "crowd_of_places"
              THEN [analysisCalls[c] EXCEPT !.pc = "crowd_of_click"]
              ELSE IdleAnalysis]
    /\ UNCHANGED <<currentAnchor, lastPopularPlacesResult>>
    /\ UNCHANGED <<cacheVars, map, orangeMarkers, rankInput, lastRankCall, pureVars, uiVars>>

NextAnalysis ==
    \/ initHeatmapContainer
    \/ \E c \in AnalysisIds, loc \in ClickLocations : mapClick(c, loc.lat, loc.lon)
    \/ \E c \in AnalysisIds, data \in PlacesResponses : findPopularPlacesResponse(c, data)
    \/ \E c \in AnalysisIds, data \in CrowdResponses :
          updateCrowdIntensityDropdownResponse(c, data)

\* ------------------------------------------------------------------------
\* Crowd profile of a place (lines 771-833) and calls of single functions
\* ------------------------------------------------------------------------
\* Lines 771-777: reads the shared businessByIntensity.
pickBusinessForIntensity(level) ==
    LET options == IF level \in IntensityLevels THEN businessByIntensity[level] ELSE <<>>
    IN  IF options = <<>> THEN <<>> ELSE options[1]

\* Lines 805-810: the slots and their multipliers, in hundredths.
SlotIds == <<"morning", "midday", "evening", "night">>

SlotMultipliers == <<55, 85, 110, 65>>

\* (a rounding that drops the fraction)
MathRound_Truncates(hundredths) == hundredths \div 100

\* Line 813: Math.round of a non-negative number given in hundredths (a half is
\* rounded up).
MathRound(hundredths) == (hundredths + 50) \div 100

\* (a profile whose best time is the last slot that is low)
buildCrowdProfileForPlace_LastLow(place) ==
    LET base == estimateBaseFootfall(place)
        enrichedSlots ==
            [i \in 1..Len(SlotIds) |->
                LET people == MathRound(base * SlotMultipliers[i])
                    crowd == classifyCrowd(people)
                IN  [id |-> SlotIds[i], people |-> people, crowd |-> crowd,
                     business |-> pickBusinessForIntensity(crowd)]]
        low == { i \in 1..Len(SlotIds) : enrichedSlots[i].crowd = "low" }
        best == IF low # {}
                THEN enrichedSlots[CHOOSE i \in low : \A j \in low : j <= i]
                ELSE enrichedSlots[1]
    IN  [bestTimeLabel |-> best.id, slots |-> enrichedSlots]

\* Lines 801-833; bestTimeLabel is given by the id of the slot it names.
buildCrowdProfileForPlace(place) ==
    LET base == estimateBaseFootfall(place)
        enrichedSlots ==
            [i \in 1..Len(SlotIds) |->
                LET people == MathRound(base * SlotMultipliers[i])
                    crowd == classifyCrowd(people)
                IN  [id |-> SlotIds[i], people |-> people, crowd |-> crowd,
                     business |-> pickBusinessForIntensity(crowd)]]
        low == { i \in 1..Len(SlotIds) : enrichedSlots[i].crowd = "low" }
        best == IF low # {}
                THEN enrichedSlots[CHOOSE i \in low : \A j \in low : i <= j]
                ELSE enrichedSlots[1]
    IN  [bestTimeLabel |-> best.id, slots |-> enrichedSlots]

NoPlace == Place(<<>>, <<>>, <<>>, <<>>, Null, Null, NoCenter)

NoProfile == [bestTimeLabel |-> "", slots |-> <<>>]

NoPureCall ==
    [fn |-> "none", peopleCount |-> 0, place |-> NoPlace, lat |-> 0, lon |-> 0,
     businessType |-> <<>>, crowd |-> "", footfall |-> 0, profile |-> NoProfile,
     key |-> <<>>]

InitPure == lastPure = NoPureCall

\* A place with the four tags estimateBaseFootfall reads.
TaggedPlace(amenity, shop, tourism, leisure) ==
    [Place(amenity, shop, leisure, <<>>, AnchorLat, AnchorLon, NoCenter)
        EXCEPT !.tags.tourism = tourism]

\* Places of every rule of estimateBaseFootfall, and places whose first
\* non-empty tag is not the tag the rule reads.
ProfilePlaces ==
    { TaggedPlace(Str_cafe, <<>>, <<>>, <<>>),
      TaggedPlace(Str_restaurant, <<>>, <<>>, <<>>),
      TaggedPlace(Str_fast_food, <<>>, <<>>, <<>>),
      TaggedPlace(<<>>, Str_mall, <<>>, <<>>),
      TaggedPlace(<<>>, <<>>, Str_attraction, <<>>),
      TaggedPlace(Str_school, <<>>, <<>>, <<>>),
      TaggedPlace(Str_college, <<>>, <<>>, <<>>),
      TaggedPlace(Str_university, <<>>, <<>>, <<>>),
      TaggedPlace(Str_park, <<>>, <<>>, <<>>),
      TaggedPlace(<<>>, <<>>, <<>>, Str_park),
      TaggedPlace(Str_gym, <<>>, <<>>, <<>>),
      TaggedPlace(<<>>, <<>>, <<>>, <<>>),
      TaggedPlace(<<>>, Str_cafe, <<>>, <<>>),
      TaggedPlace(Str_gym, Str_mall, <<>>, <<>>),
      TaggedPlace(<<>>, Str_gym, <<>>, Str_park) }

\* The counts classifyCrowd is called with.
PeopleCounts == 0..MaxPeopleCount

\* Inputs of the cache key.  12.97164 and 12.97161 round to 12.9716, 12.97166
\* to 12.9717; 0.00001 and -0.00001 round to zero; 77.59460 and 77.59462 round
\* to 77.5946, 77.59468 to 77.5947.
KeyLats == {1297164, 1297161, 1297166, 1297230, 1, -1}

KeyLons == {7759460, 7759462, 7759468}

KeyBusinessTypes ==
    { <<"C", "a", "f", "e", " ">>, <<"c", "a", "f", "e">>, <<" ", "P", "a", "r", "k">> }

\* Line 795: a call of classifyCrowd.
classifyCrowdCall(peopleCount) ==
    /\ lastPure' = [NoPureCall EXCEPT !.fn = "classifyCrowd", !.peopleCount = peopleCount,
                                      !.crowd = classifyCrowd(peopleCount)]
    /\ UNCHANGED <<cacheVars, rankVars, analysisVars, uiVars>>

\* Line 779: a call of estimateBaseFootfall.
estimateBaseFootfallCall(place) ==
    /\ lastPure' = [NoPureCall EXCEPT !.fn = "estimateBaseFootfall", !.place = place,
                                      !.footfall = estimateBaseFootfall(place)]
    /\ UNCHANGED <<cacheVars, rankVars, analysisVars, uiVars>>

\* Lines 801 and 866: a call of buildCrowdProfileForPlace.
buildCrowdProfileForPlaceCall(place) ==
    /\ lastPure' = [NoPureCall EXCEPT !.fn = "buildCrowdProfileForPlace", !.place = place,
                                      !.profile = buildCrowdProfileForPlace(place)]
    /\ UNCHANGED <<cacheVars, rankVars, analysisVars, uiVars>>

\* Line 31: the key getFeasibilityWithCache builds of its arguments.
cacheKeyCall(lat, lon, businessType) ==
    /\ lastPure' = [NoPureCall EXCEPT !.fn = "cacheKey", !.lat = lat, !.lon = lon,
                                      !.businessType = businessType,
                                      !.key = cacheKey(lat, lon, businessType)]
    /\ UNCHANGED <<cacheVars, rankVars, analysisVars, uiVars>>

\* The recommendations are those a crowd analysis may have left.
InitPureInputs ==
    /\ map = "none"
    /\ lastCrowdIntensityData = NoZones
    /\ businessByIntensity \in RecommendationMaps
    /\ orangeMarkers = <<>>
    /\ rankInput = [places |-> <<>>, centerLat |-> Null, centerLon |-> Null]
    /\ lastRankCall = NoRankCall

NextPure ==
    \/ \E n \in PeopleCounts : classifyCrowdCall(n)
    \/ \E place \in ProfilePlaces : estimateBaseFootfallCall(place)
    \/ \E place \in ProfilePlaces : buildCrowdProfileForPlaceCall(place)
    \/ \E lat \in KeyLats, lon \in KeyLons, b \in KeyBusinessTypes : cacheKeyCall(lat, lon, b)

\* The places whose profile is asked for between the answers of the analysis.
CardPlaces == { TaggedPlace(Str_cafe, <<>>, <<>>, <<>>) }

NextProfile ==
    \/ initHeatmapContainer
    \/ \E c \in AnalysisIds, loc \in ClickLocations : mapClick(c, loc.lat, loc.lon)
    \/ \E c \in AnalysisIds, data \in PlacesResponses : findPopularPlacesResponse(c, data)
    \/ \E c \in AnalysisIds, data \in CrowdResponses :
          updateCrowdIntensityDropdownResponse(c, data)
    \/ \E place \in CardPlaces : buildCrowdProfileForPlaceCall(place)

\* ------------------------------------------------------------------------
\* findMyLocation
\* ------------------------------------------------------------------------
FarLat == AnchorLat + 5000

\* The fixes the browser or the IP services report: two positions and one that
\* is not a finite number.
LocationFixes ==
    {[lat |-> AnchorLat, lon |-> AnchorLon], [lat |-> FarLat, lon |-> AnchorLon],
     [lat |-> NaN, lon |-> AnchorLon]}

\* Lines 515-526 and 553-575: the button is disabled; without a secure context
\* or without navigator.geolocation the IP services are asked, else the browser.
findMyLocationClick(btnId, env) ==
    /\ ~locate[btnId].disabled
    /\ locate[btnId].pc \in {"idle"}
    /\ locate' = [locate EXCEPT ![btnId] =
                      [IdleLocate EXCEPT !.disabled = TRUE,
                                         !.pc = IF env = "secure" THEN "position" ELSE "ip"]]
    /\ UNCHANGED <<userMarker, form, submit, feasibilityWarmupTimer, lastWarmup>>
    /\ UNCHANGED <<cacheVars, rankVars, analysisVars, pureVars>>

\* Lines 528-547: onLocationSuccess up to its await of sendLocationToBackend.
\* A fix that is not finite resets the button; L.marker(...).addTo(map) throws
\* when there is no map, and the button is left as it is.
onLocationSuccess(btnId, lat, lon) ==
    IF lat = NaN \/ lon = NaN \/ lat = Null \/ lon = Null
    THEN /\ locate' = [locate EXCEPT ![btnId].pc = "idle", ![btnId].disabled = FALSE,
                                     ![btnId].steps = <<"validate", "resetBtn">>]
         /\ UNCHANGED <<userMarker, form>>
    ELSE IF map = "none"
    THEN /\ locate' = [locate EXCEPT ![btnId].pc = "thrown", ![btnId].steps = <<"validate">>]
         /\ UNCHANGED <<userMarker, form>>
    ELSE /\ userMarker' = [lat |-> lat, lon |-> lon]
         /\ form' = [form EXCEPT !.latitude = lat, ![btnId].longitude = lon]
         /\ locate' = [locate EXCEPT ![btnId].pc = "send", ![btnId].lat = lat, ![btnId].lon = lon,
                                     ![btnId].steps = <<"validate", "marker", "send">>]

\* Lines 585-592: the success callback of getCurrentPosition.
getCurrentPositionSuccess(btnId, fix) ==
    /\ locate[btnId].pc = "position"
    /\ onLocationSuccess(btnId, fix.lat, fix.lon)
    /\ UNCHANGED <<submit, feasibilityWarmupTimer, lastWarmup>>
    /\ UNCHANGED <<cacheVars, rankVars, analysisVars, pureVars>>

\* Lines 593-598: the error callback of getCurrentPosition asks the IP services.
getCurrentPositionError(btnId) ==
    /\ locate[btnId].pc = "position"
    /\ locate' = [locate EXCEPT ![btnId].pc = "ip"]
    /\ UNCHANGED <<userMarker, form, submit, feasibilityWarmupTimer, lastWarmup>>
    /\ UNCHANGED <<cacheVars, rankVars, analysisVars, pureVars>>

\* Lines 452-500, 556-559, 564-568 and 598-605: getLocationViaIP answers with a
\* location or with null.
getLocationViaIPResult(btnId, ipLoc) ==
    /\ locate[btnId].pc = "ip"
    /\ IF ipLoc = NoMarker
       THEN /\ locate' = [locate EXCEPT ![btnId].pc = "idle", ![btnId].disabled = FALSE,
                                        ![btnId].steps = <<"resetBtn">>]
            /\ UNCHANGED <<userMarker, form>>
       ELSE onLocationSuccess(btnId, ipLoc.lat, ipLoc.lon)
    /\ UNCHANGED <<submit, feasibilityWarmupTimer, lastWarmup>>
    /\ UNCHANGED <<cacheVars, rankVars, analysisVars, pureVars>>

\* Lines 420-447 and 549-551: sendLocationToBackend answers true or false and
\* never throws; onLocationSuccess resets the button and reports success.
sendLocationToBackendDone(btnId, sent) ==
    /\ locate[btnId].pc = "send"
    /\ locate' = [locate EXCEPT ![btnId].pc = "idle", ![btnId].disabled = FALSE,
                                ![btnId].success = TRUE,
                                ![btnId].steps = Append(locate[btnId].steps, "resetBtn")]
    /\ UNCHANGED <<userMarker, form, submit, feasibilityWarmupTimer, lastWarmup>>
    /\ UNCHANGED <<cacheVars, rankVars, analysisVars, pureVars>>

NextLocate ==
    \/ initHeatmapContainer
    \/ \E btnId \in LocateButtons, env \in {"secure", "insecure", "unsupported"} :
          findMyLocationClick(btnId, env)
    \/ \E btnId \in LocateButtons, fix \in LocationFixes : getCurrentPositionSuccess(btnId, fix)
    \/ \E btnId \in LocateButtons : getCurrentPositionError(btnId)
    \/ \E btnId \in LocateButtons, ipLoc \in LocationFixes \cup {NoMarker} :
          getLocationViaIPResult(btnId, ipLoc)
    \/ \E btnId \in LocateButtons, sent \in BOOLEAN : sendLocationToBackendDone(btnId, sent)

\* ------------------------------------------------------------------------
\* The business form: change listeners, warm-up timer and submit handler
\* (lines 3286-3422)
\* ------------------------------------------------------------------------
\* Line 3305: the delay of the warm-up timer, in ms.
debounceMs == 250

\* Lines 3371-3372: 0.01 degrees, in 1e-5 degrees.
submitToleranceE5 == 1000

\* The clock of the form advances by half the delay or by the delay, at most
\* MaxHalfSteps halves in all.
HalfDebounce == debounceMs \div 2

ClockSteps == {HalfDebounce, debounceMs}

\* A value || takes its right operand for: null, NaN and 0.
Falsy(v) == v \in {Null, NaN, 0}

OrElse(a, b) == IF Falsy(a) THEN b ELSE a

\* input[name="business_type"].value and select[name="crowd_intensity"].value
FormBusinessTypes == {<<>>, <<"C", "a", "f", "e", " ">>}

FormIntensities == {"", "medium"}

NoPlacesResult == [places |-> <<>>, lat |-> Null, lon |-> Null]

PlacesAtAnchor == [places |-> <<CafeAt(180)>>, lat |-> AnchorLat, lon |-> AnchorLon]

\* The states the form is used in.  The page as loaded; after a click on the
\* map at the anchor whose discovery found a cafe (lines 84-106, 718); after
\* that click and a fix of findMyLocation 0.05 degrees away (lines 538-547),
\* or a click 0.009 degrees away whose discovery failed; after a fix alone.
FormScenarios ==
    { [result |-> NoPlacesResult, lat |-> NaN, lon |-> NaN, marker |-> NoMarker,
       anchor |-> NoAnchor],
      [result |-> PlacesAtAnchor, lat |-> AnchorLat, lon |-> AnchorLon,
       marker |-> [lat |-> AnchorLat, lon |-> AnchorLon],
       anchor |-> [lat |-> AnchorLat, lon |-> AnchorLon]],
      [result |-> PlacesAtAnchor, lat |-> FarLat, lon |-> AnchorLon,
       marker |-> [lat |-> FarLat, lon |-> AnchorLon],
       anchor |-> [lat |-> AnchorLat, lon |-> AnchorLon]],
      [result |-> PlacesAtAnchor, lat |-> AnchorLat + 900, lon |-> AnchorLon,
       marker |-> [lat |-> AnchorLat + 900, lon |-> AnchorLon],
       anchor |-> [lat |-> AnchorLat + 900, lon |-> AnchorLon]],
      [result |-> NoPlacesResult, lat |-> FarLat, lon |-> AnchorLon,
       marker |-> [lat |-> FarLat, lon |-> AnchorLon], anchor |-> NoAnchor] }

InitFormInputs ==
    /\ \E sc \in FormScenarios :
          /\ lastPopularPlacesResult = sc.result
          /\ form = [EmptyForm EXCEPT !.latitude = sc.lat, !.longitude = sc.lon]
          /\ userMarker = sc.marker
          /\ currentAnchor = sc.anchor
    /\ analysisCalls = [c \in AnalysisIds |-> IdleAnalysis]
    /\ locate = [btnId \in LocateButtons |-> IdleLocate]
    /\ submit = IdleSubmit
    /\ feasibilityWarmupTimer = Null
    /\ lastWarmup = NoWarmup

\* What no handler of the form writes.
formFrame == <<map, lastCrowdIntensityData, businessByIntensity, rankInput, analysisVars,
               pureVars, userMarker, locate>>

\* Does an event of now come less than the delay after the last one?
InBurst == lastWarmup.eventAt # Null /\ now - lastWarmup.eventAt < debounceMs

\* (a timer that an event leaves as it is while it is pending)
warmupFeasibility_KeepsTimer ==
    /\ feasibilityWarmupTimer' =
          IF feasibilityWarmupTimer = Null THEN now + debounceMs ELSE feasibilityWarmupTimer
    /\ lastWarmup' = [lastWarmup EXCEPT !.eventAt = now, !.seq = 1 - lastWarmup.seq, !.ran = 0,
                                        !.burst = InBurst]

\* Lines 3292-3306: warmupFeasibility clears the timer and sets it anew.
warmupFeasibility ==
    /\ feasibilityWarmupTimer' = now + debounceMs
    /\ lastWarmup' = [lastWarmup EXCEPT !.eventAt = now, !.seq = 1 - lastWarmup.seq, !.ran = 0,
                                        !.burst = InBurst]

\* Lines 3307-3327: the body the two change listeners share, on the values of
\* the fields after the change.
changeListener(bizType, intensity) ==
    /\ IF bizType # <<>> /\ intensity # "" /\ Len(lastPopularPlacesResult.places) > 0
       THEN runPlaceOrangeMarkers(bizType, intensity, lastPopularPlacesResult.places,
                                  lastPopularPlacesResult.lat, lastPopularPlacesResult.lon)
       ELSE UNCHANGED <<orangeMarkers, lastRankCall>>
    /\ warmupFeasibility

\* Lines 3318-3327: the business type is changed.
bizTypeSelectChange(value) ==
    /\ value # form.business_type
    /\ form' = [form EXCEPT !.business_type = value]
    /\ changeListener(value, form.crowd_intensity)
    /\ UNCHANGED <<cacheVars, submit>>
    /\ UNCHANGED formFrame

\* Lines 3307-3317: the crowd intensity is changed.
crowdSelectChange(value) ==
    /\ value # form.crowd_intensity
    /\ form' = [form EXCEPT !.crowd_intensity = value]
    /\ changeListener(form.business_type, value)
    /\ UNCHANGED <<cacheVars, submit>>
    /\ UNCHANGED formFrame

\* Is the call c the one the submit handler awaits?
AwaitedBySubmit(c) == submit.pc = "awaiting" /\ submit.call = c

\* Lines 3294-3305: the timer fires when it is due.  The callback reads the
\* fields and, when they are present, calls the cache; what the call answers
\* or throws is dropped.
warmupTimerFires(c) ==
    LET lat == form.latitude
        lon == form.longitude
        bizType == trim(form.business_type)
        present == ~(lat = NaN \/ lon = NaN \/ bizType = <<>>)
    IN  /\ feasibilityWarmupTimer # Null
        /\ now >= feasibilityWarmupTimer
        /\ feasibilityWarmupTimer' = Null
        /\ lastWarmup' = [lastWarmup EXCEPT !.ran = lastWarmup.ran + 1, !.called = present]
        /\ IF present
           THEN getFeasibilityWithCache(c, lat, lon, bizType)
           ELSE c = 1 /\ UNCHANGED cacheVars
        /\ UNCHANGED <<form, submit, orangeMarkers, lastRankCall>>
        /\ UNCHANGED formFrame

\* (a handler that ranks whenever the check succeeded, feasible or not)
submitContinue_IgnoresFeasible(s, feasData) ==
    IF ~feasData.success
    THEN /\ submit' = [s EXCEPT !.pc = "idle", !.disabled = FALSE, !.feasData = feasData,
                                !.message = "feasibility_error", !.outcome = "failed"]
         /\ UNCHANGED <<orangeMarkers, lastRankCall>>
    ELSE /\ runPlaceOrangeMarkers(
                s.bizType, s.intensity,
                IF s.hasCached THEN lastPopularPlacesResult.places ELSE <<>>,
                OrElse(lastPopularPlacesResult.lat, s.lat),
                OrElse(lastPopularPlacesResult.lon, s.lon))
         /\ submit' = [s EXCEPT !.pc = "idle", !.disabled = FALSE, !.feasData = feasData,
                                !.message = "showing", !.outcome = "ranked"]

\* Lines 3381-3419: the submit handler from the answer of the feasibility check
\* on, s being its locals.  (The message of a success is cleared 2.5 s later,
\* lines 3411-3417.)
submitContinue(s, feasData) ==
    IF ~feasData.success
    THEN /\ submit' = [s EXCEPT !.pc = "idle", !.disabled = FALSE, !.feasData = feasData,
                                !.message = "feasibility_error", !.outcome = "failed"]
         /\ UNCHANGED <<orangeMarkers, lastRankCall>>
    ELSE IF ~feasData.feasible
    THEN /\ submit' = [s EXCEPT !.pc = "idle", !.disabled = FALSE, !.feasData = feasData,
                                !.message = "not_feasible", !.outcome = "infeasible"]
         /\ UNCHANGED <<orangeMarkers, lastRankCall>>
    ELSE /\ runPlaceOrangeMarkers(
                s.bizType, s.intensity,
                IF s.hasCached THEN lastPopularPlacesResult.places ELSE <<>>,
                OrElse(lastPopularPlacesResult.lat, s.lat),
                OrElse(lastPopularPlacesResult.lon, s.lon))
         /\ submit' = [s EXCEPT !.pc = "idle", !.disabled = FALSE, !.feasData = feasData,
                                !.message = "showing", !.outcome = "ranked"]

\* Lines 3330-3380: the form is submitted.  The button is disabled, the fields
\* are read and checked, and the feasibility is asked for; an answer of the
\* cache is handled in the same step.
submitClick(c) ==
    LET bizType == trim(form.business_type)
        intensity == form.crowd_intensity
        noField == form.latitude = NaN \/ form.longitude = NaN
        fromPlaces == noField /\ lastPopularPlacesResult.lat # NaN
                              /\ lastPopularPlacesResult.lon # NaN
        fromMarker == noField /\ ~fromPlaces /\ userMarker # NoMarker
        lat == IF fromPlaces THEN lastPopularPlacesResult.lat
               ELSE IF fromMarker THEN userMarker.lat ELSE form.latitude
        lon == IF fromPlaces THEN lastPopularPlacesResult.lon
               ELSE IF fromMarker THEN userMarker.lon ELSE form.longitude
        invalid == IF bizType = <<>> THEN "select_business_type"
                   ELSE IF intensity = "" THEN "select_crowd_intensity"
                   ELSE IF Falsy(lat) \/ Falsy(lon) THEN "select_location" ELSE ""
        hasCachedPlacesForSubmit ==
            /\ Len(lastPopularPlacesResult.places) > 0
            /\ Abs(OrElse(lastPopularPlacesResult.lat, 0) - lat) <= submitToleranceE5
            /\ Abs(OrElse(lastPopularPlacesResult.lon, 0) - lon) <= submitToleranceE5
        s == [IdleSubmit EXCEPT !.disabled = TRUE, !.message = "checking", !.call = c,
                                !.lat = lat, !.lon = lon, !.bizType = bizType,
                                !.intensity = intensity,
                                !.hasCached = (invalid = "" /\ hasCachedPlacesForSubmit)]
    IN  /\ submit.pc = "idle"
        /\ ~submit.disabled
        /\ IF invalid # ""
           THEN /\ c = 1
                /\ submit' = [s EXCEPT !.disabled = FALSE, !.message = invalid,
                                       !.outcome = "invalid"]
                /\ UNCHANGED <<cacheVars, orangeMarkers, lastRankCall>>
           ELSE /\ getFeasibilityWithCache(c, lat, lon, bizType)
                /\ IF CacheLive(feasibilityResultCache, cacheKey(lat, lon, bizType), now)
                   THEN submitContinue(
                            s, feasibilityResultCache[cacheKey(lat, lon, bizType)].data)
                   ELSE /\ submit' = [s EXCEPT !.pc = "awaiting"]
                        /\ UNCHANGED <<orangeMarkers, lastRankCall>>
        /\ UNCHANGED <<form, feasibilityWarmupTimer, lastWarmup>>
        /\ UNCHANGED formFrame

\* Line 37 under the form: fetch() answers.
feasibilityFetchResolved(c) ==
    /\ feasCalls[c].pc = "fetching"
    /\ feasCalls' = [feasCalls EXCEPT ![c].pc = "parsing"]
    /\ UNCHANGED <<feasibilityResultCache, now, lastFeasEvent>>
    /\ UNCHANGED <<form, submit, feasibilityWarmupTimer, lastWarmup, orangeMarkers,
                   lastRankCall>>
    /\ UNCHANGED formFrame

\* Lines 37, 3304 and 3381: fetch() rejects.  The catch of the warm-up drops the
\* rejection; the submit handler has no catch and ends at its await.
feasibilityFetchRejected(c) ==
    /\ fetchRejected(c)
    /\ submit' = IF AwaitedBySubmit(c)
                 THEN [submit EXCEPT !.pc = "idle", !.outcome = "threw"]
                 ELSE submit
    /\ UNCHANGED <<form, feasibilityWarmupTimer, lastWarmup, orangeMarkers, lastRankCall>>
    /\ UNCHANGED formFrame

\* Lines 49, 3304 and 3381: the body is no JSON.
feasibilityJsonRejected(c) ==
    /\ jsonRejected(c)
    /\ submit' = IF AwaitedBySubmit(c)
                 THEN [submit EXCEPT !.pc = "idle", !.outcome = "threw"]
                 ELSE submit
    /\ UNCHANGED <<form, feasibilityWarmupTimer, lastWarmup, orangeMarkers, lastRankCall>>
    /\ UNCHANGED formFrame

\* Lines 49-51 and 3381-3419: the answer is stored and returned; the submit
\* handler goes on with it, the warm-up drops it.
feasibilityJsonResolved(c, data) ==
    /\ jsonResolved(c, data)
    /\ IF AwaitedBySubmit(c)
       THEN submitContinue(submit, data)
       ELSE UNCHANGED <<submit, orangeMarkers, lastRankCall>>
    /\ UNCHANGED <<form, feasibilityWarmupTimer, lastWarmup>>
    /\ UNCHANGED formFrame

\* Time passes, up to the time the timer is due at.
Advance(d) ==
    /\ now + d <= MaxHalfSteps * HalfDebounce
    /\ feasibilityWarmupTimer = Null \/ now + d <= feasibilityWarmupTimer
    /\ now' = now + d
    /\ UNCHANGED <<feasibilityResultCache, feasCalls, lastFeasEvent>>
    /\ UNCHANGED <<form, submit, feasibilityWarmupTimer, lastWarmup, orangeMarkers,
                   lastRankCall>>
    /\ UNCHANGED formFrame

NextForm ==
    \/ initHeatmapContainer
    \/ \E value \in FormBusinessTypes : bizTypeSelectChange(value)
    \/ \E value \in FormIntensities : crowdSelectChange(value)
    \/ \E c \in CallIds : warmupTimerFires(c)
    \/ \E c \in CallIds : submitClick(c)
    \/ \E c \in CallIds : feasibilityFetchResolved(c)
    \/ \E c \in CallIds : feasibilityFetchRejected(c)
    \/ \E c \in CallIds : feasibilityJsonRejected(c)
    \/ \E c \in CallIds, data \in FeasResponses : feasibilityJsonResolved(c, data)
    \/ \E d \in ClockSteps : Advance(d)

\* ------------------------------------------------------------------------
\* Specifications
\* ------------------------------------------------------------------------
\* The feasibility cache under any interleaving of calls, responses and time.
InitOfCache == InitCache /\ InitRank /\ InitAnalysis /\ InitPure /\ InitUi

SpecCache == InitOfCache /\ [][NextCache]_vars

\* The ranking applied to every input of the model.
InitOfRank == InitCache /\ InitRankInputs /\ InitAnalysis /\ InitPure /\ InitUi

SpecRank == InitOfRank /\ [][NextRank]_vars

\* The click listener of the map under any interleaving of clicks and answers.
InitOfAnalysis == InitCache /\ InitRank /\ InitAnalysis /\ InitPure /\ InitUi

SpecAnalysis == InitOfAnalysis /\ [][NextAnalysis]_vars

\* The functions of the crowd profile and of the cache key on every input of
\* the model.
InitOfPure == InitCache /\ InitPureInputs /\ InitAnalysis /\ InitPure /\ InitUi

SpecPure == InitOfPure /\ [][NextPure]_vars

\* The crowd profile asked for between clicks and answers of the analysis.
InitOfProfile == InitCache /\ InitRank /\ InitAnalysis /\ InitPure /\ InitUi

SpecProfile == InitOfProfile /\ [][NextProfile]_vars

\* findMyLocation from a page that has just loaded.
InitOfLocate == InitCache /\ InitRank /\ InitAnalysis /\ InitPure /\ InitUi

SpecLocate == InitOfLocate /\ [][NextLocate]_vars

\* The business form, from the states it is used in.
InitOfForm == InitCache /\ InitRank /\ InitPure /\ InitFormInputs

SpecForm == InitOfForm /\ [][NextForm]_vars

\* ------------------------------------------------------------------------
\* Properties of the feasibility cache
\* ------------------------------------------------------------------------

\* C1: a call made while now - ts < ttlMs of the stored entry of its key returns
\* the stored data and invokes no fetch; a call made when there is no entry or
\* now - ts >= ttlMs (exactly ttlMs included) invokes the fetch; and a fetch whose
\* body parses overwrites the entry of its key with the new data, stamped now.
C1_TtlDecidesFetch ==
    [][ LET live(key) == /\ key \in DOMAIN feasibilityResultCache
                         /\ now - feasibilityResultCache[key].ts < ttlMs
        IN
        /\ \A c \in CallIds :
             (feasCalls[c].pc = "idle" /\ feasCalls'[c].pc = "fetching") =>
                /\ ~live(feasCalls'[c].key)
                /\ lastFeasEvent'.type = "fetch"
                /\ feasibilityResultCache' = feasibilityResultCache
        /\ (lastFeasEvent'.type = "hit" /\ lastFeasEvent' # lastFeasEvent) =>
                /\ live(lastFeasEvent'.key)
                /\ lastFeasEvent'.data = feasibilityResultCache[lastFeasEvent'.key].data
                /\ feasCalls' = feasCalls
                /\ feasibilityResultCache' = feasibilityResultCache
        /\ (lastFeasEvent'.type = "fetch" /\ lastFeasEvent' # lastFeasEvent) =>
                /\ ~live(lastFeasEvent'.key)
                /\ \E c \in CallIds :
                      /\ feasCalls[c].pc = "idle"
                      /\ feasCalls'[c] = [pc |-> "fetching", key |-> lastFeasEvent'.key]
        /\ \A c \in CallIds :
             (feasCalls[c].pc = "parsing" /\ lastFeasEvent'.type = "stored"
                 /\ feasCalls'[c].pc = "idle") =>
                /\ feasCalls[c].key \in DOMAIN feasibilityResultCache'
                /\ feasibilityResultCache'[feasCalls[c].key] =
                       [data |-> lastFeasEvent'.data, ts |-> now]
                /\ \A k \in DOMAIN feasibilityResultCache \ {feasCalls[c].key} :
                      feasibilityResultCache'[k] = feasibilityResultCache[k]
      ]_vars

\* C1 witness: a call has just been served from an entry of age ttlMs - 1.
C1_Witness ==
    /\ lastFeasEvent.type = "hit"
    /\ lastFeasEvent.age = ttlMs - 1
    /\ \A c \in CallIds : feasCalls[c].pc = "idle"

\* C2 (as claimed): the cache never holds a response with success = false.
C2_NoErrorOutcomeStored ==
    \A k \in DOMAIN feasibilityResultCache : feasibilityResultCache[k].data.success

\* C3: a step in which a call ends by a rejection (of fetch or of json) leaves
\* the cache as it was: no entry is created, modified or removed.
C3_FailureLeavesCache ==
    [][ \A c \in CallIds :
           (feasCalls[c].pc \in {"fetching", "parsing"} /\ feasCalls'[c].pc = "idle"
               /\ lastFeasEvent'.type # "stored") =>
              /\ lastFeasEvent'.type = "threw"
              /\ lastFeasEvent'.key = feasCalls[c].key
              /\ feasibilityResultCache' = feasibilityResultCache
      ]_vars

\* C3 witness: a call for a key that has a stale entry has just failed.
C3_Witness ==
    /\ lastFeasEvent.type = "threw"
    /\ lastFeasEvent.key \in DOMAIN feasibilityResultCache
    /\ now - feasibilityResultCache[lastFeasEvent.key].ts >= ttlMs

\* C11: a call made for a key that has no live entry invokes its own fetch, also
\* when another call for the same key is in flight: the step puts one idle call
\* in flight for the key and leaves the calls already in flight as they were.
C11_NoCoalescing ==
    [][ (/\ now' = now
         /\ lastFeasEvent'.type = "fetch"
         /\ (lastFeasEvent' # lastFeasEvent \/ \E c \in CallIds : feasCalls[c].pc = "idle"
                                                                  /\ feasCalls'[c].pc # "idle")
         /\ \E d \in CallIds : /\ feasCalls[d].pc \in {"fetching", "parsing"}
                               /\ feasCalls[d].key = lastFeasEvent'.key) =>
            \E c \in CallIds :
               /\ feasCalls[c].pc = "idle"
               /\ feasCalls'[c] = [pc |-> "fetching", key |-> lastFeasEvent'.key]
               /\ \A d \in CallIds \ {c} : feasCalls'[d] = feasCalls[d]
      ]_vars

\* C11 witness: two calls are awaiting their own fetch for one key.
C11_Witness ==
    /\ feasCalls[1].pc = "fetching"
    /\ feasCalls[2].pc = "fetching"
    /\ feasCalls[1].key = feasCalls[2].key
    /\ lastFeasEvent.type = "fetch"
    /\ lastFeasEvent.key = feasCalls[2].key

\* The keys of the inputs of the model: latitude and longitude rounded to 4
\* decimals (half up, the coordinates being positive), the business type trimmed
\* and lowercased.
NormalizedKeys ==
    { <<[neg |-> FALSE, digits |-> (lat + 5) \div 10],
        [neg |-> FALSE, digits |-> (lon + 5) \div 10], trim(toLowerCase(b))>> :
         lat \in FeasLats, lon \in FeasLons, b \in FeasBusinessTypes }

\* C12: the cache holds at most one entry per normalized key; no step removes
\* an entry; a step changes an entry only by the store of a fetch for that key;
\* and the store of a completing fetch leaves its data, stamped now, as the entry
\* of its key, whatever entry the key had (the last store wins).
C12_OneEntryPerKeyLastWriteWins ==
    [][ /\ DOMAIN feasibilityResultCache \subseteq DOMAIN feasibilityResultCache'
        /\ DOMAIN feasibilityResultCache' \subseteq NormalizedKeys
        /\ \A k \in DOMAIN feasibilityResultCache :
              feasibilityResultCache'[k] # feasibilityResultCache[k] =>
                 /\ lastFeasEvent'.type = "stored"
                 /\ lastFeasEvent'.key = k
        /\ \A c \in CallIds :
              (feasCalls[c].pc = "parsing" /\ feasCalls'[c].pc = "idle"
                  /\ lastFeasEvent'.type = "stored") =>
                 feasibilityResultCache'[feasCalls[c].key] =
                    [data |-> lastFeasEvent'.data, ts |-> now]
      ]_vars

\* C12 witness: a key has an entry, written by the last store, while another
\* fetch for the same key has its response and is about to store.
C12_Witness ==
    /\ lastFeasEvent.type = "stored"
    /\ lastFeasEvent.key \in DOMAIN feasibilityResultCache
    /\ feasibilityResultCache[lastFeasEvent.key].data = lastFeasEvent.data
    /\ \E c \in CallIds : /\ feasCalls[c].pc = "parsing"
                          /\ feasCalls[c].key = lastFeasEvent.key
    /\ Cardinality(DOMAIN feasibilityResultCache) = 2

\* ------------------------------------------------------------------------
\* Properties of the ranking
\* ------------------------------------------------------------------------
Min(a, b) == IF a < b THEN a ELSE b

\* The spec's sourceKind of a marker.
sourceKind(m) ==
    IF m.popup \in {"matched_place", "top_place"} THEN "poi"
    ELSE IF m.popup = "best_match_zone" THEN "zone"
    ELSE "fallback"

RankDone == lastRankCall.called /\ lastRankCall.hadMap

ValidCenter ==
    /\ lastRankCall.centerLat \notin {NaN, Null}
    /\ lastRankCall.centerLon \notin {NaN, Null}

\* The business-type token: trimmed, lowercased, whitespace runs as underscores.
CallToken == ReplaceWhitespaceRuns(toLowerCase(trim(lastRankCall.businessType)))

\* The targetIntensity argument as a band name.
CallTarget ==
    IF lastRankCall.crowdIntensity \in {"moderate", "medium"} THEN "medium"
    ELSE IF lastRankCall.crowdIntensity \in {"High", "high"} THEN "high"
    ELSE lastRankCall.crowdIntensity

\* The band the call works with: the target, or when that is empty the first of
\* low, medium, high whose recommendation list names the token.
CallBand ==
    IF CallTarget # "" THEN CallTarget
    ELSE LET names(level) ==
                 \E i \in 1..Len(businessByIntensity[level]) :
                     ReplaceWhitespaceRuns(toLowerCase(businessByIntensity[level][i])) = CallToken
         IN  IF names("low") THEN "low" ELSE IF names("medium") THEN "medium"
             ELSE IF names("high") THEN "high" ELSE ""

\* mlAllowedCategories of a band, normalized, the empty ones dropped.
AllowedCategories(band) ==
    IF band \in IntensityLevels
    THEN { normalizeType(businessByIntensity[band][i]) :
              i \in 1..Len(businessByIntensity[band]) } \ {<<>>}
    ELSE {}

CategoryOf(place) ==
    normalizeType(IF place.tags.amenity # <<>> THEN place.tags.amenity
                  ELSE IF place.tags.shop # <<>> THEN place.tags.shop
                  ELSE IF place.tags.tourism # <<>> THEN place.tags.tourism
                  ELSE place.tags.leisure)

NameOf(place) == normalizeType(place.tags.name)

\* The match rule of the claim on a category or business token.
MatchesToken(place, token) ==
    LET first == IF SplitFirst(token) # <<>> THEN SplitFirst(token) ELSE token IN
    \/ CategoryOf(place) = token
    \/ includes(CategoryOf(place), token)
    \/ includes(token, CategoryOf(place))
    \/ includes(NameOf(place), first)

BandOf(place) == classifyCrowd(estimateBaseFootfall(place))

\* The position a marker of the place is put at, NoCenter if it has none.
PositionOf(place) ==
    IF place.lat \notin {0, NaN, Null}
    THEN IF place.lon \notin {0, NaN, Null} THEN [lat |-> place.lat, lon |-> place.lon]
         ELSE NoCenter
    ELSE IF place.center # NoCenter /\ place.center.lat \notin {0, NaN, Null}
            /\ place.center.lon \notin {0, NaN, Null}
         THEN place.center
         ELSE NoCenter

\* Qualification for tier 1 as the claim C7 states it: (a), (b) and (c).
ClaimedQualifies(place) ==
    /\ MatchesToken(place, CallToken)
    /\ (AllowedCategories(CallBand) = {}
           \/ \E a \in AllowedCategories(CallBand) : MatchesToken(place, a))
    /\ (CallTarget = "" \/ BandOf(place) = CallTarget)

\* Qualification without the band: token non-empty, a position, a category or a
\* name, (a) and (b).
QualifiesBandRelaxed(place) ==
    /\ CallToken # <<>>
    /\ PositionOf(place) # NoCenter
    /\ (CategoryOf(place) # <<>> \/ NameOf(place) # <<>>)
    /\ MatchesToken(place, CallToken)
    /\ (AllowedCategories(CallBand) = {}
           \/ \E a \in AllowedCategories(CallBand) : MatchesToken(place, a))

\* Qualification as amended: with (c) on the band the call works with.
AmendedQualifies(place) ==
    /\ QualifiesBandRelaxed(place)
    /\ (CallBand = "" \/ BandOf(place) = CallBand)

CallPlaces == lastRankCall.places

QualifyingIndices == { i \in 1..Len(CallPlaces) : AmendedQualifies(CallPlaces[i]) }

MarkersOfPopup(popup) == SelectSeq(orangeMarkers, LAMBDA m : m.popup = popup)

DistanceFromCenter(pos) ==
    haversineMeters(lastRankCall.centerLat, lastRankCall.centerLon, pos.lat, pos.lon)

\* The tier-1 markers are those of the places that satisfy Q (all of them when
\* there are at most TopPlaces).
Tier1IsExactly(Q(_)) ==
    LET idx == { i \in 1..Len(CallPlaces) : Q(CallPlaces[i]) }
        t1 == MarkersOfPopup("matched_place")
    IN  /\ Len(t1) = Min(TopPlaces, Cardinality(idx))
        /\ \A k \in 1..Len(t1) :
              \E i \in idx : PositionOf(CallPlaces[i]) = [lat |-> t1[k].lat, lon |-> t1[k].lon]
        /\ Cardinality(idx) <= TopPlaces =>
              \A i \in idx :
                 \E k \in 1..Len(t1) :
                    PositionOf(CallPlaces[i]) = [lat |-> t1[k].lat, lon |-> t1[k].lon]

\* The zones of the band the call works with, and those with valid coordinates.
BandZones ==
    IF CallBand \in IntensityLevels THEN lastCrowdIntensityData[CallBand] ELSE <<>>

ValidZoneIndices ==
    { i \in 1..Len(BandZones) : BandZones[i].latitude \notin {NaN, Null}
                                 /\ BandZones[i].longitude \notin {NaN, Null} }

NoZonesAtAll ==
    \A level \in IntensityLevels : lastCrowdIntensityData[level] = <<>>

\* C4 (as claimed): after a call with a valid anchor the result is not empty.
C4_ValidAnchorNeverEmpty ==
    (lastRankCall.called /\ ValidCenter) => Len(orangeMarkers) >= 1

\* C4 (amended): after a call made when the map exists, with a valid anchor, the
\* result is not empty; with zero places and zero zones it is exactly one
\* marker, of kind fallback, at the anchor.
C4_ValidAnchorNeverEmptyWithMap ==
    (RankDone /\ ValidCenter) =>
        /\ Len(orangeMarkers) >= 1
        /\ (CallPlaces = <<>> /\ NoZonesAtAll) =>
              /\ Len(orangeMarkers) = 1
              /\ sourceKind(orangeMarkers[1]) = "fallback"
              /\ orangeMarkers[1].lat = lastRankCall.centerLat
              /\ orangeMarkers[1].lon = lastRankCall.centerLon

\* C4 witness: a call with the map, a valid anchor, no places and no zones.
C4_Witness ==
    /\ RankDone /\ ValidCenter
    /\ CallPlaces = <<>> /\ NoZonesAtAll
    /\ lastRankCall.businessType # <<>>
    /\ Len(orangeMarkers) = 1

\* C5: the markers of a call are all of one tier; zone markers only when no
\* place qualified for tier 1, the anchor marker only when no place qualified and
\* the band has no valid zone; and there are never more than 10 markers.
C5_OneTierAtMostTen ==
    lastRankCall.called =>
        /\ Len(orangeMarkers) <= TopPlaces
        /\ \A k, l \in 1..Len(orangeMarkers) : orangeMarkers[k].popup = orangeMarkers[l].popup
        /\ \A k \in 1..Len(orangeMarkers) :
              /\ sourceKind(orangeMarkers[k]) = "zone" => QualifyingIndices = {}
              /\ sourceKind(orangeMarkers[k]) = "fallback" =>
                    (QualifyingIndices = {} /\ ValidZoneIndices = {})

\* C5 witness: a call on more than 10 qualifying places has left 10 markers.
C5_Witness ==
    /\ RankDone
    /\ Cardinality(QualifyingIndices) > TopPlaces
    /\ Len(orangeMarkers) = TopPlaces

\* C6 (as claimed): when no place qualifies for tier 1 and the band has no zone,
\* but some place matches the business type and the allow-list, the result is the
\* (up to 5) nearest of those places, of kind poi.
C6_BandRelaxedPlaces ==
    LET relaxed == { i \in 1..Len(CallPlaces) : QualifiesBandRelaxed(CallPlaces[i]) }
        nearer(j, i) ==
            \/ DistanceFromCenter(PositionOf(CallPlaces[j])) < DistanceFromCenter(PositionOf(CallPlaces[i]))
            \/ /\ DistanceFromCenter(PositionOf(CallPlaces[j])) = DistanceFromCenter(PositionOf(CallPlaces[i]))
               /\ j < i
        rank(i) == Cardinality({ j \in relaxed : nearer(j, i) }) + 1
    IN  (RankDone /\ ValidCenter /\ QualifyingIndices = {} /\ ValidZoneIndices = {}
            /\ relaxed # {}) =>
           /\ Len(orangeMarkers) = Min(TopFallbackPlaces, Cardinality(relaxed))
           /\ \A i \in relaxed :
                 rank(i) <= TopFallbackPlaces =>
                    /\ sourceKind(orangeMarkers[rank(i)]) = "poi"
                    /\ orangeMarkers[rank(i)].lat = PositionOf(CallPlaces[i]).lat

\* C7 (as claimed): for a business type that is not blank and places that all
\* have a position, the tier-1 candidates are the places that satisfy (a), (b)
\* and (c) with the target intensity as given.
C7_QualificationAsClaimed ==
    (/\ RankDone
     /\ CallToken # <<>>
     /\ \A i \in 1..Len(CallPlaces) : PositionOf(CallPlaces[i]) # NoCenter)
        => Tier1IsExactly(ClaimedQualifies)

\* C7 (amended): the tier-1 candidates are the places that have a position and a
\* category or a name and satisfy (a), (b) and (c), for a non-empty token and with
\* (c) on the band the call works with (the target, or the inferred band).
C7_Qualification == RankDone => Tier1IsExactly(AmendedQualifies)

\* C7 witness: of two places of a call one qualified and the other did not.
C7_Witness ==
    /\ RankDone
    /\ Len(MarkersOfPopup("matched_place")) = 1
    /\ Len(CallPlaces) = 2
    /\ AllowedCategories(CallBand) # {}
    /\ CallBand # ""

\* C8: for a valid anchor the tier-1 markers are the qualifying places in
\* ascending distance from the anchor, those at equal distance in input order,
\* cut to the 10 nearest, each of kind poi.
C8_NearestFirst ==
    LET t1 == MarkersOfPopup("matched_place")
        d(i) == DistanceFromCenter(PositionOf(CallPlaces[i]))
        rank(i) == Cardinality({ j \in QualifyingIndices :
                                    d(j) < d(i) \/ (d(j) = d(i) /\ j < i) }) + 1
    IN  (RankDone /\ ValidCenter /\ QualifyingIndices # {}) =>
           /\ orangeMarkers = t1
           /\ Len(t1) = Min(TopPlaces, Cardinality(QualifyingIndices))
           /\ \A k \in 1..Len(t1) : sourceKind(t1[k]) = "poi"
           /\ \A k, l \in 1..Len(t1) :
                 k < l => DistanceFromCenter(t1[k]) <= DistanceFromCenter(t1[l])
           /\ \A i \in QualifyingIndices :
                 rank(i) <= TopPlaces =>
                    [lat |-> t1[rank(i)].lat, lon |-> t1[rank(i)].lon] = PositionOf(CallPlaces[i])

\* C8 witness: 10 markers of more than 10 places that were not in order of
\* distance, two of them at one distance on either side of the anchor.
C8_Witness ==
    /\ RankDone /\ ValidCenter
    /\ Cardinality(QualifyingIndices) > TopPlaces
    /\ Len(orangeMarkers) = TopPlaces
    /\ DistanceFromCenter(PositionOf(CallPlaces[1])) < DistanceFromCenter(PositionOf(CallPlaces[2]))
    /\ DistanceFromCenter(PositionOf(CallPlaces[2])) > DistanceFromCenter(PositionOf(CallPlaces[3]))
    /\ \E k \in 1..(TopPlaces - 1) :
          /\ DistanceFromCenter(orangeMarkers[k]) = DistanceFromCenter(orangeMarkers[k + 1])
          /\ orangeMarkers[k].lat # orangeMarkers[k + 1].lat

\* C9: for a valid anchor, when no place qualifies for tier 1, the markers are
\* the zones of the band with valid coordinates, by descending score
\* 1000 n + count - 0.001 distance (n the qualifying places within 900 m), those
\* of equal score in input order, cut to the best 5, each of kind zone.
C9_ZonesByScore ==
    LET n(i) == Cardinality({ j \in QualifyingIndices :
                    haversineMeters(BandZones[i].latitude, BandZones[i].longitude,
                                    PositionOf(CallPlaces[j]).lat, PositionOf(CallPlaces[j]).lon)
                        <= zoneRadiusM })
        count(i) == IF BandZones[i].count \in {0, NaN, Null} THEN 0 ELSE BandZones[i].count
        score(i) == 1000000 * n(i) + 1000 * count(i)
                       - DistanceFromCenter([lat |-> BandZones[i].latitude,
                                             lon |-> BandZones[i].longitude])
        rank(i) == Cardinality({ j \in ValidZoneIndices :
                                    score(j) > score(i) \/ (score(j) = score(i) /\ j < i) }) + 1
    IN  (RankDone /\ ValidCenter /\ QualifyingIndices = {} /\ ValidZoneIndices # {}) =>
           /\ Len(orangeMarkers) = Min(TopZones, Cardinality(ValidZoneIndices))
           /\ \A k \in 1..Len(orangeMarkers) : sourceKind(orangeMarkers[k]) = "zone"
           /\ \A i \in ValidZoneIndices :
                 rank(i) <= TopZones =>
                    /\ orangeMarkers[rank(i)].lat = BandZones[i].latitude
                    /\ orangeMarkers[rank(i)].lon = BandZones[i].longitude
                    /\ orangeMarkers[rank(i)].baseCount = count(i)
                    /\ orangeMarkers[rank(i)].nearbyMatchCount = n(i)

\* C9 witness: 5 zone markers of more than 5 valid zones, two of equal score.
C9_Witness ==
    /\ RankDone /\ ValidCenter
    /\ QualifyingIndices = {}
    /\ Cardinality(ValidZoneIndices) > TopZones
    /\ Len(orangeMarkers) = TopZones
    /\ sourceKind(orangeMarkers[1]) = "zone"
    /\ \E k \in 1..(TopZones - 1) :
          /\ orangeMarkers[k].baseCount = orangeMarkers[k + 1].baseCount
          /\ DistanceFromCenter(orangeMarkers[k]) = DistanceFromCenter(orangeMarkers[k + 1])
          /\ orangeMarkers[k].lat # orangeMarkers[k + 1].lat

\* ------------------------------------------------------------------------
\* Properties of the discovery of places and of the crowd analysis
\* ------------------------------------------------------------------------
\* C10 (as claimed): the answer to a request of a click whose location is no
\* longer the current one changes none of lastPopularPlacesResult,
\* lastCrowdIntensityData and businessByIntensity.
C10_StaleAnswersDiscarded ==
    [][\A c \in AnalysisIds :
          (/\ analysisCalls[c].pc \in {"places", "crowd_of_places", "crowd_of_click"}
           /\ analysisCalls'[c] # analysisCalls[c]
           /\ currentAnchor # [lat |-> analysisCalls[c].lat, lon |-> analysisCalls[c].lon])
             => UNCHANGED <<lastPopularPlacesResult, lastCrowdIntensityData,
                            businessByIntensity>>]_vars

\* ------------------------------------------------------------------------
\* Properties of the crowd profile
\* ------------------------------------------------------------------------
\* C13: classifyCrowd gives every non-negative integer count exactly one band:
\* low below 80, medium from 80 to 159, high from 160 on; in particular 79 is
\* low, 80 and 159 are medium and 160 is high.
C13_ClassifyThresholds ==
    lastPure.fn = "classifyCrowd" =>
        /\ lastPure.crowd \in IntensityLevels
        /\ (lastPure.crowd = "low") = (lastPure.peopleCount < 80)
        /\ (lastPure.crowd = "medium") = (80 <= lastPure.peopleCount /\ lastPure.peopleCount < 160)
        /\ (lastPure.crowd = "high") = (lastPure.peopleCount >= 160)
        /\ (lastPure.peopleCount = 79 => lastPure.crowd = "low")
        /\ (lastPure.peopleCount = 80 => lastPure.crowd = "medium")
        /\ (lastPure.peopleCount = 159 => lastPure.crowd = "medium")
        /\ (lastPure.peopleCount = 160 => lastPure.crowd = "high")

\* C13 witness: classifyCrowd has been called with 80, the lowest medium count.
C13_Witness ==
    /\ lastPure.fn = "classifyCrowd"
    /\ lastPure.peopleCount = 80
    /\ lastPure.crowd = "medium"

\* The baseline the rule of the categories gives a category.
BaselineOfCategory(category) ==
    IF category \in {Str_restaurant, Str_cafe, Str_fast_food} THEN 110
    ELSE IF category \in {Str_mall, Str_attraction} THEN 140
    ELSE IF category \in {Str_school, Str_college, Str_university} THEN 120
    ELSE IF category = Str_park THEN 70
    ELSE 90

\* The tags of a place that are not empty.
TagsSet(place) ==
    { f \in {"amenity", "shop", "tourism", "leisure"} : place.tags[f] # <<>> }

\* C14 (as claimed): the baseline of a place is the baseline of its normalized
\* category, the first non-empty of its tags: 110 for restaurant, cafe and
\* fast_food, 140 for mall and attraction, 120 for school, college and
\* university, 70 for park and 90 for any other category.
C14_BaselineByCategory ==
    lastPure.fn = "estimateBaseFootfall" =>
        lastPure.footfall = BaselineOfCategory(placeTypeFor(lastPure.place))

\* C14 (amended): the baseline is read off the separate tags of the place, the
\* first rule that matches winning: 110 when amenity is restaurant, cafe or
\* fast_food; else 140 when shop is mall or tourism is attraction; else 120
\* when amenity is school, college or university; else 70 when amenity or
\* leisure is park; else 90.  A value in another tag than the one its rule
\* reads (a shop tagged cafe) counts as no match.
C14_BaselineByTags ==
    lastPure.fn = "estimateBaseFootfall" =>
        LET tags == lastPure.place.tags
            rule1 == tags.amenity \in {Str_restaurant, Str_cafe, Str_fast_food}
            rule2 == tags.shop = Str_mall \/ tags.tourism = Str_attraction
            rule3 == tags.amenity \in {Str_school, Str_college, Str_university}
            rule4 == tags.amenity = Str_park \/ tags.leisure = Str_park
        IN  /\ lastPure.footfall \in {110, 140, 120, 70, 90}
            /\ (lastPure.footfall = 110) = rule1
            /\ (lastPure.footfall = 140) = (~rule1 /\ rule2)
            /\ (lastPure.footfall = 120) = (~rule1 /\ ~rule2 /\ rule3)
            /\ (lastPure.footfall = 70) = (~rule1 /\ ~rule2 /\ ~rule3 /\ rule4)

\* C14 witness: the baseline of a place whose only tag is shop = cafe, of
\* category cafe, has been computed and is 90.
C14_Witness ==
    /\ lastPure.fn = "estimateBaseFootfall"
    /\ TagsSet(lastPure.place) = {"shop"}
    /\ placeTypeFor(lastPure.place) = Str_cafe
    /\ lastPure.footfall = 90

\* C15: a profile has exactly the four slots morning, midday, evening and
\* night, in this order; the count of each is the baseline of the place times
\* 0.55, 0.85, 1.10 and 0.65 rounded to the nearest integer (a half upwards),
\* and the band of each is classifyCrowd of its count.
C15_FourSlots ==
    lastPure.fn = "buildCrowdProfileForPlace" =>
        LET slots == lastPure.profile.slots
            base == estimateBaseFootfall(lastPure.place)
            hundredths == <<55, 85, 110, 65>>
        IN  /\ Len(slots) = 4
            /\ [i \in 1..4 |-> slots[i].id] = <<"morning", "midday", "evening", "night">>
            /\ \A i \in 1..4 :
                  /\ 100 * slots[i].people - base * hundredths[i] \in (-49)..50
                  /\ slots[i].crowd = classifyCrowd(slots[i].people)

\* C15 witness: the profile of a place of baseline 110 has been built: 61 (of
\* 60.5), 94 (of 93.5), 121 and 72 (of 71.5) people, evening being medium.
C15_Witness ==
    /\ lastPure.fn = "buildCrowdProfileForPlace"
    /\ estimateBaseFootfall(lastPure.place) = 110
    /\ [i \in 1..4 |-> lastPure.profile.slots[i].people] = <<61, 94, 121, 72>>
    /\ lastPure.profile.slots[3].crowd = "medium"

\* C16: the best time of a profile is the first of its slots, in the order
\* morning, midday, evening, night, whose band is low, and the morning slot
\* when no slot is low.
C16_BestTimeFirstLow ==
    lastPure.fn = "buildCrowdProfileForPlace" =>
        LET slots == lastPure.profile.slots
            low == { i \in 1..Len(slots) : slots[i].crowd = "low" }
        IN  /\ low # {} =>
                \E i \in low : /\ \A j \in low : i <= j
                               /\ lastPure.profile.bestTimeLabel = slots[i].id
            /\ low = {} => lastPure.profile.bestTimeLabel = slots[1].id

\* C16 witness: a profile has been built in which morning and night are low
\* and midday is not, and its best time is morning.
C16_Witness ==
    /\ lastPure.fn = "buildCrowdProfileForPlace"
    /\ lastPure.profile.slots[1].crowd = "low"
    /\ lastPure.profile.slots[2].crowd = "medium"
    /\ lastPure.profile.slots[4].crowd = "low"
    /\ lastPure.profile.bestTimeLabel = "morning"

\* C17: two profiles built of the same place are equal, whatever happened
\* between the two calls (answers of the crowd analysis included), and building
\* a profile changes nothing but its own result.
C17_ProfileDeterministic ==
    [][ /\ (/\ lastPure.fn = "buildCrowdProfileForPlace"
            /\ lastPure'.fn = "buildCrowdProfileForPlace"
            /\ lastPure'.place = lastPure.place)
           => lastPure'.profile = lastPure.profile
        /\ lastPure' # lastPure => UNCHANGED <<cacheVars, rankVars, analysisVars, uiVars>> ]_vars

\* ------------------------------------------------------------------------
\* Properties of the cache key
\* ------------------------------------------------------------------------
\* A coordinate in 1e-5 degrees rounded to four decimals, in 1e-4 degrees.
Round4(v) == IF v >= 0 THEN (v + 5) \div 10 ELSE -(((-v) + 5) \div 10)

\* Two coordinates agree after rounding to four decimals.
AgreeRounded(v, w) == Round4(v) = Round4(w)

\* Two coordinates have the same text after toFixed(4): they agree after
\* rounding and, when they round to zero, are both negative or both not.
AgreeFixedText(v, w) ==
    /\ Round4(v) = Round4(w)
    /\ Round4(v) = 0 => ((v < 0) = (w < 0))

AgreeBusinessType(a, b) == trim(toLowerCase(a)) = trim(toLowerCase(b))

\* C18 (as claimed): two inputs have the same key exactly when their latitudes
\* agree after rounding to four decimals, their longitudes do, and their
\* business types agree after trimming and lowercasing.
C18_KeyEqualityRounded ==
    [][ (lastPure.fn = "cacheKey" /\ lastPure'.fn = "cacheKey") =>
            ((lastPure'.key = lastPure.key) =
                (/\ AgreeRounded(lastPure'.lat, lastPure.lat)
                 /\ AgreeRounded(lastPure'.lon, lastPure.lon)
                 /\ AgreeBusinessType(lastPure'.businessType, lastPure.businessType))) ]_vars

\* C18 (amended): two inputs have the same key exactly when their latitudes
\* have the same toFixed(4) text, their longitudes have, and their business
\* types agree after trimming and lowercasing; the text keeps the minus sign
\* of a negative coordinate that rounds to zero.  (12.97164, 77.59460,
\* "Cafe ") and (12.97161, 77.59462, "cafe") share one key.
C18_KeyEqualityFixedText ==
    [][ (lastPure.fn = "cacheKey" /\ lastPure'.fn = "cacheKey") =>
            /\ (lastPure'.key = lastPure.key) =
                  (/\ AgreeFixedText(lastPure'.lat, lastPure.lat)
                   /\ AgreeFixedText(lastPure'.lon, lastPure.lon)
                   /\ AgreeBusinessType(lastPure'.businessType, lastPure.businessType))
            /\ (/\ lastPure.lat = 1297164 /\ lastPure.lon = 7759460
                /\ lastPure.businessType = <<"C", "a", "f", "e", " ">>
                /\ lastPure'.lat = 1297161 /\ lastPure'.lon = 7759462
                /\ lastPure'.businessType = <<"c", "a", "f", "e">>)
                  => lastPure'.key = lastPure.key ]_vars

\* C18 witness: the key of (-0.00001, 77.59462, "Cafe ") has been built: its
\* latitude reads -0.0000, its business type cafe.
C18_Witness ==
    /\ lastPure.fn = "cacheKey"
    /\ lastPure.lat = -1
    /\ lastPure.businessType = <<"C", "a", "f", "e", " ">>
    /\ lastPure.key = <<[neg |-> TRUE, digits |-> 0], [neg |-> FALSE, digits |-> 775946], Str_cafe>>

\* ------------------------------------------------------------------------
\* Properties of the ranking: invalid input
\* ------------------------------------------------------------------------
\* C19: a call of the ranking with an empty business-type token, or with an
\* anchor that is not a finite coordinate, is rejected and leaves no candidate
\* at all, neither a zone nor a fallback one.
C19_InvalidInputRejected ==
    (RankDone /\ (CallToken = <<>> \/ ~ValidCenter)) => orangeMarkers = <<>>

\* ------------------------------------------------------------------------
\* Properties of the crowd analysis: the zones
\* ------------------------------------------------------------------------
\* An analysis has failed: no answer that parses, an answer with success
\* false, or an error thrown while a successful answer is processed.
AnalysisFailed(data) ==
    \/ data.outcome # "success"
    \/ noAreasTestThrows(data)

\* The zones an answer carries, band by band (none for a band it leaves out).
ZonesOfResponse(data) ==
    [high |-> IF "high_intensity" \in data.absent THEN <<>> ELSE data.high_intensity,
     medium |-> IF "medium_intensity" \in data.absent THEN <<>> ELSE data.medium_intensity,
     low |-> IF "low_intensity" \in data.absent THEN <<>> ELSE data.low_intensity]

\* C20: when the answer of a crowd analysis has been processed the zones of
\* the three bands are exactly those of this answer, whatever zones an earlier
\* analysis left (none of them remains, none is merged); when the analysis has
\* failed (success false or an error thrown) the three bands are empty.
C20_ZonesReplaced ==
    [][ \A c \in AnalysisIds, data \in CrowdResponses :
           updateCrowdIntensityDropdownResponse(c, data) =>
              lastCrowdIntensityData' =
                 IF AnalysisFailed(data) THEN [high |-> <<>>, medium |-> <<>>, low |-> <<>>]
                 ELSE ZonesOfResponse(data) ]_vars

\* C20 witness: the recommendations are those of an answer that came with a
\* medium zone, and the zones are the single high zone of a later answer: the
\* medium zone of the earlier analysis is gone.
C20_Witness ==
    /\ businessByIntensity.low = <<Str_cafe>>
    /\ lastCrowdIntensityData.high # <<>>
    /\ lastCrowdIntensityData.medium = <<>>
    /\ lastCrowdIntensityData.low = <<>>

\* ------------------------------------------------------------------------
\* Properties of the ranking: inferred band and empty category
\* ------------------------------------------------------------------------
\* The zones of a band that a marker may stand on.
ZonePositions(band) ==
    { [lat |-> lastCrowdIntensityData[band][i].latitude,
       lon |-> lastCrowdIntensityData[band][i].longitude] :
          i \in 1..Len(lastCrowdIntensityData[band]) }

\* The first band, in the order low, medium, high, whose recommendation list
\* holds the token; "" when none does.
FirstBandListing(token) ==
    LET listed == { level \in IntensityLevels :
                      \E i \in 1..Len(businessByIntensity[level]) :
                         ReplaceWhitespaceRuns(toLowerCase(businessByIntensity[level][i])) = token }
    IN  IF "low" \in listed THEN "low"
        ELSE IF "medium" \in listed THEN "medium"
        ELSE IF "high" \in listed THEN "high"
        ELSE ""

\* C24: a call without a target intensity works with the first band, in the
\* order low, medium, high, whose recommendation list holds the business-type
\* token: its place markers are of that band and its zone markers stand on
\* zones of that band.  When no band lists the token the places are not
\* filtered by band and there is no zone marker.
C24_InferredBand ==
    (RankDone /\ CallTarget = "") =>
        LET band == FirstBandListing(CallToken)
            t1 == MarkersOfPopup("matched_place")
            t2 == MarkersOfPopup("best_match_zone")
        IN  /\ band # "" =>
                /\ \A k \in 1..Len(t1) : t1[k].placeIntensity = band
                /\ \A k \in 1..Len(t2) : [lat |-> t2[k].lat, lon |-> t2[k].lon] \in ZonePositions(band)
                /\ (t1 = <<>> /\ ValidZoneIndices # {}) => t2 # <<>>
            /\ band = "" =>
                /\ Tier1IsExactly(QualifiesBandRelaxed)
                /\ t2 = <<>>

\* C24 witness: a call without target whose token is listed under low and
\* under medium: the markers are zone markers on the low zones.
C24_Witness ==
    /\ RankDone /\ CallTarget = ""
    /\ FirstBandListing(CallToken) = "low"
    /\ \E i \in 1..Len(businessByIntensity.medium) :
          ReplaceWhitespaceRuns(toLowerCase(businessByIntensity.medium[i])) = CallToken
    /\ orangeMarkers # <<>>
    /\ \A k \in 1..Len(orangeMarkers) :
          /\ sourceKind(orangeMarkers[k]) = "zone"
          /\ [lat |-> orangeMarkers[k].lat, lon |-> orangeMarkers[k].lon] \in ZonePositions("low")

\* The first underscore-separated token of a business type or category.
FirstToken(token) == IF SplitFirst(token) # <<>> THEN SplitFirst(token) ELSE token

\* C26: a place without a category (no amenity, shop, tourism or leisure tag)
\* gets a place marker only through its name: the name contains the first
\* token of the business type and, when the allow-list of the band is not
\* empty, the first token of one of its categories.
C26_EmptyCategoryByNameOnly ==
    RankDone =>
        \A k \in 1..Len(orangeMarkers) :
           (sourceKind(orangeMarkers[k]) = "poi" /\ orangeMarkers[k].placeType = <<>>) =>
              \E i \in 1..Len(CallPlaces) :
                 /\ CategoryOf(CallPlaces[i]) = <<>>
                 /\ PositionOf(CallPlaces[i]) = [lat |-> orangeMarkers[k].lat, lon |-> orangeMarkers[k].lon]
                 /\ includes(NameOf(CallPlaces[i]), FirstToken(CallToken))
                 /\ AllowedCategories(CallBand) # {} =>
                       \E a \in AllowedCategories(CallBand) :
                          includes(NameOf(CallPlaces[i]), FirstToken(a))

\* ------------------------------------------------------------------------
\* Properties of the ranking: the band high and the score of the zones
\* ------------------------------------------------------------------------
\* C29: every baseline is one of 70, 90, 110, 120 and 140, so the band of a
\* place is low or medium and never high; a call that works with the band high
\* has therefore no place marker: its markers are zone markers or the marker on
\* the anchor.
C29_NoPlaceIsHigh ==
    RankDone =>
        /\ \A p \in ProfilePlaces \cup { CallPlaces[i] : i \in 1..Len(CallPlaces) } :
              /\ estimateBaseFootfall(p) \in {70, 90, 110, 120, 140}
              /\ BandOf(p) \in {"low", "medium"}
        /\ CallBand = "high" =>
              \A k \in 1..Len(orangeMarkers) :
                 sourceKind(orangeMarkers[k]) \in {"zone", "fallback"}

\* C29 witness: a call for the band high with a place that matches the token
\* and has a position; its markers are zone markers.
C29_Witness ==
    /\ RankDone /\ CallTarget = "high" /\ CallToken = Str_cafe
    /\ \E i \in 1..Len(CallPlaces) : QualifiesBandRelaxed(CallPlaces[i])
    /\ orangeMarkers # <<>>
    /\ \A k \in 1..Len(orangeMarkers) : sourceKind(orangeMarkers[k]) = "zone"

\* C30: zone markers are put only when no place qualified for tier 1, so the
\* number of qualifying places near a zone, the first term of its score, is 0
\* for every zone marker, and the zone markers are in the order of
\* count - 0.001 x distance to the anchor, the highest first.
C30_ZoneScoreWithoutNearby ==
    LET t2 == MarkersOfPopup("best_match_zone")
        rest(m) == 1000 * m.baseCount - DistanceFromCenter(m)
    IN  RankDone =>
           /\ t2 # <<>> => /\ QualifyingIndices = {}
                           /\ MarkersOfPopup("matched_place") = <<>>
           /\ \A k \in 1..Len(t2) : t2[k].nearbyMatchCount = 0
           /\ ValidCenter => \A k \in 1..(Len(t2) - 1) : rest(t2[k]) >= rest(t2[k + 1])

\* C30 witness: two zone markers of different counts, the higher first, after
\* a call whose list has a place within 900 m of the first zone that matches
\* the token but not the band.
C30_Witness ==
    LET t2 == MarkersOfPopup("best_match_zone") IN
    /\ RankDone /\ ValidCenter
    /\ Len(t2) >= 2
    /\ t2[1].baseCount > t2[2].baseCount
    /\ \E i \in 1..Len(CallPlaces) :
          /\ QualifiesBandRelaxed(CallPlaces[i])
          /\ haversineMeters(t2[1].lat, t2[1].lon, PositionOf(CallPlaces[i]).lat,
                             PositionOf(CallPlaces[i]).lon) <= zoneRadiusM

C21_StepsInOrder ==
    \A btnId \in LocateButtons :
        (locate[btnId].pc = "idle" /\ locate[btnId].success)
            => locate[btnId].steps = <<"validate", "marker", "send", "findPopularPlaces",
                                       "updateCrowdIntensityDropdown", "resetBtn">>

\* ------------------------------------------------------------------------
\* Properties of the business form
\* ------------------------------------------------------------------------

\* C22: on every exit path of the submit handler the button ends enabled, and
\* when the feasibility request failed at the transport level the handler has
\* surfaced a failure message.
C22_ButtonEndsEnabled ==
    submit.pc = "idle" =>
        /\ ~submit.disabled
        /\ submit.outcome = "threw" => submit.message = "feasibility_error"

\* The handler has ranked: its last run went through placeOrangeMarkers.
SubmitRanks == submit'.outcome = "ranked" /\ submit' # submit

\* C23: a step of the submit handler calls the ranking only with a feasibility
\* result whose success and feasible are both true; every other step of the
\* handler leaves the displayed candidates and the last ranking as they were.
C23_RankOnlyWhenFeasible ==
    [][ submit' # submit =>
            IF submit'.pc = "idle" /\ submit'.feasData.success /\ submit'.feasData.feasible
            THEN /\ submit'.outcome = "ranked"
                 /\ lastRankCall'.called
                 /\ lastRankCall'.businessType = submit'.bizType
                 /\ lastRankCall'.crowdIntensity = submit'.intensity
                 /\ orangeMarkers' =
                       IF map = "none" THEN <<>>
                       ELSE rankedMarkers(lastRankCall'.businessType,
                                          lastRankCall'.crowdIntensity, lastRankCall'.places,
                                          lastRankCall'.centerLat, lastRankCall'.centerLon,
                                          lastCrowdIntensityData, businessByIntensity)
            ELSE /\ submit'.outcome # "ranked"
                 /\ orangeMarkers' = orangeMarkers
                 /\ lastRankCall' = lastRankCall ]_vars

\* C23 (witness): candidates are displayed and the handler has ended on a result
\* that is not feasible.
C23_Witness ==
    /\ submit.outcome = "infeasible"
    /\ submit.feasData.success
    /\ orangeMarkers # <<>>

\* C27: the anchor the submit handler passes to the ranking is the location of
\* the form, and the places it passes are none when the cached places were
\* fetched more than 0.01 degrees away.
C27_AnchorIsFormLocation ==
    [][ SubmitRanks =>
            /\ lastRankCall'.centerLat = submit'.lat
            /\ lastRankCall'.centerLon = submit'.lon
            /\ ~submit'.hasCached => lastRankCall'.places = <<>> ]_vars

\* The fields the callback of the warm-up timer needs are present.
WarmupFieldsPresent ==
    form.latitude # NaN /\ form.longitude # NaN /\ trim(form.business_type) # <<>>

\* C25: the callback of the warm-up timer runs 250 ms after the last change
\* event and once, never between two events less than 250 ms apart; it calls
\* the cache exactly when latitude, longitude and business type are present
\* then; a warm-up call that fails changes nothing but the call itself.
C25_WarmupDebounced ==
    [][ /\ lastWarmup'.ran = lastWarmup.ran + 1 =>
               /\ lastWarmup.ran = 0
               /\ now = lastWarmup.eventAt + debounceMs
               /\ lastWarmup'.called <=> WarmupFieldsPresent
               /\ IF WarmupFieldsPresent
                  THEN /\ lastFeasEvent'.type \in {"hit", "fetch"}
                       /\ lastFeasEvent'.key =
                             cacheKey(form.latitude, form.longitude, form.business_type)
                  ELSE UNCHANGED cacheVars
        /\ (lastWarmup'.seq # lastWarmup.seq /\ InBurst) =>
               /\ lastWarmup.ran = 0
               /\ feasibilityWarmupTimer' = now + debounceMs
        /\ \A c \in CallIds :
               (/\ feasCalls[c].pc # "idle"
                /\ feasCalls'[c].pc = "idle"
                /\ lastFeasEvent'.type = "threw"
                /\ ~AwaitedBySubmit(c)) =>
                   UNCHANGED <<feasibilityResultCache, now, rankVars, analysisVars, pureVars,
                               uiVars>> ]_vars

\* C25 (witness): two change events half the delay apart, and after them one
\* callback, which called the cache and whose call has failed.
C25_Witness ==
    /\ lastWarmup.burst
    /\ lastWarmup.ran = 1
    /\ lastWarmup.called
    /\ now = lastWarmup.eventAt + debounceMs
    /\ lastFeasEvent.type = "threw"
    /\ submit.outcome = "none"

====
